---- MODULE Spec2Model ----
(***************************************************************************)
(* Live-flight detection and interruption subsystem of LEDMatrix           *)
(* (src/src/flight_manager.py, class FlightLiveManager).                   *)
(*                                                                         *)
(* Two threads share one FlightLiveManager: the background poller          *)
(* (_background_poll_loop / _fetch_flights_internal) and the render path   *)
(* (has_live_content, update).  Time is the value time.time() returns,     *)
(* counted in whole ticks.  The two clock reads of one has_live_content()  *)
(* evaluation (line 846 and, microseconds later, line 818) return the      *)
(* same tick.  has_live_content() copies the list under the lock and then  *)
(* works on session state that no other thread writes, so one evaluation   *)
(* is one step taken when the lock is free.                                *)
(*                                                                         *)
(* Specifications: Spec (session manager fed by whole poll cycles),        *)
(* SpecSingle (one aircraft continuously in range), SpecBridge (publish    *)
(* and rotation step by step), SpecRotate (two aircraft continuously in    *)
(* range), SpecLock (both threads step by step, requests in flight),       *)
(* SpecPoller (poll cycles every update_interval seconds with credentials, *)
(* polling window and error backoff), SpecLoop (the poll thread inside     *)
(* _background_poll_loop, started and stopped), SpecBatch (one poll cycle  *)
(* over every batch of state vectors), SpecLookup (aircraft identification *)
(* through the database memo and the hexdb.io fallback cache, with         *)
(* restarts), SpecThreads (two threads in the shared lookup module,        *)
(* src/src/aircraft_lookup.py), SpecInfer (aircraft type inference over a  *)
(* loaded FAA registry, src/src/faa_database.py), SpecRegistry (the        *)
(* registry built from every kind of row), SpecRestart (polling started    *)
(* and stopped repeatedly, every start with a new poll thread), SpecRender *)
(* (the render path step by step against the publishes, clock running).    *)
(***************************************************************************)
EXTENDS Integers, Sequences, FiniteSets, TLC

\* ---------------------------------------------------------------- bounds
MaxTime == 3             \* the clock runs from 0 to MaxTime
MaxCooldown == 2         \* configured cooldown_duration is in 1..MaxCooldown
MaxInterruption == 3     \* configured max_interruption_time is in 1..MaxInterruption
MaxDist == 2             \* distance_km of a polled aircraft is in 1..MaxDist
MaxCycles == 11          \* poll-loop iterations followed from start to end
MaxLoops == 2            \* update intervals slept through, one second at a time

\* ---------------------------------------------------------- configuration
max_flights == 2              \* self.max_flights
min_altitude_m == 2           \* self.min_altitude_m
flight_display_duration == 2  \* self.flight_display_duration
update_interval == 10         \* self.update_interval, seconds
error_backoff_time == 60      \* self.error_backoff_time, seconds
max_consecutive_errors == 5   \* self.max_consecutive_errors
refresh_margin == 300         \* the 5 minute buffer of _refresh_oauth_token

Hexes == {"a1", "b2"}    \* icao24 codes of the aircraft that can be in range

\* Python None for a timestamp, and a key absent from a dict of timestamps
NoTime == -1
\* Python None for current_flight
NoFlight == [icao24 |-> "None", distance_km |-> 0]

VARIABLES
    now,                      \* time.time()
    cooldown_duration,        \* self._cooldown_duration (config)
    max_interruption_time,    \* self._max_interruption_time (config)
    live_flights,             \* self.live_flights
    current_flight,           \* self.current_flight
    current_flight_index,     \* self.current_flight_index
    last_flight_switch,       \* self.last_flight_switch
    last_update,              \* self.last_update
    consecutive_errors,       \* self.consecutive_errors
    lock,                     \* self._lock: "free" or the holder
    ppc,                      \* poller thread: position in _fetch_flights_internal
    poll_time,                \* poller local current_time (line 602)
    new_live_flights,         \* poller local new_live_flights (line 657)
    interruption_active,      \* self._interruption_active
    interruption_start_time,  \* self._interruption_start_time
    cooldown_flights,         \* self._cooldown_flights
    ev,                       \* history: the last has_live_content evaluation
    session_origin,           \* history: when the running session left Idle
    last_set,                 \* history: when each cooldown entry was last written
    log,                      \* history: the last evaluations (scenario runs)
    enabled,                  \* self.enabled (config)
    client_credentials,       \* self.client_id and self.client_secret are both set
    start_hour,               \* self.start_hour (config)
    end_hour,                 \* self.end_hour (config)
    access_token,             \* self.access_token
    token_expiry,             \* self.token_expiry
    last_error_time,          \* self.last_error_time
    rpc,                      \* render thread: position in the operation it runs
    current_flights,          \* render thread local current_flights (line 835)
    lpc,                      \* poller thread: position in _background_poll_loop
    sleep_time,               \* poller local sleep_time (line 210)
    stop_event,               \* self._stop_event is set
    polling_active,           \* self._polling_active
    cycle,                    \* history: what the last poll cycle did
    after_stop,               \* history: what the poll loop did since the stop event was set
    polled_states,            \* history: the state vectors of the last positions answer
    aircraft_db,              \* self.aircraft_db: how _init_aircraft_database went
    db_cache,                 \* AircraftDatabase._cache: its keys, oldest first
    fallback_cache,           \* self._fallback_cache
    cache_file,               \* the content of aircraft_fallback_cache.json
    last_fallback_request,    \* self._last_fallback_request
    lookup,                   \* history: the last _lookup_aircraft_info call
    calls,                    \* threads in aircraft_lookup._fallback_lookup: position and locals
    request_times,            \* history: when the last two hexdb.io requests were issued
    faa_db,                   \* FAADatabase: _loaded, by_icao24, by_nnumber
    inference,                \* history: the last type inference, its arguments and results
    poll_threads,             \* the FlightPollThread objects: position and local sleep_time
    poll_thread               \* self._poll_thread

vars == <<now, cooldown_duration, max_interruption_time, live_flights,
          current_flight, current_flight_index, last_flight_switch,
          last_update, consecutive_errors, lock, ppc, poll_time,
          new_live_flights, interruption_active, interruption_start_time,
          cooldown_flights, ev, session_origin,
          last_set, log, enabled, client_credentials, start_hour, end_hour,
          access_token, token_expiry, last_error_time, rpc, current_flights,
          lpc, sleep_time, stop_event, polling_active, cycle, after_stop,
          polled_states, aircraft_db, db_cache, fallback_cache, cache_file,
          last_fallback_request, lookup, calls, request_times, faa_db,
          inference, poll_threads, poll_thread>>

configVars == <<cooldown_duration, max_interruption_time>>
bridgeVars == <<live_flights, current_flight, current_flight_index,
                last_flight_switch>>
pollerVars == <<last_update, consecutive_errors, ppc, poll_time,
                new_live_flights>>
sessionVars == <<interruption_active, interruption_start_time,
                 cooldown_flights>>
historyVars == <<ev, session_origin, last_set, log>>
windowVars == <<enabled, client_credentials, start_hour, end_hour>>
authVars == <<access_token, token_expiry, last_error_time>>
renderVars == <<rpc, current_flights>>
loopVars == <<lpc, sleep_time, stop_event, polling_active>>
traceVars == <<cycle, after_stop>>
otherVars == <<windowVars, authVars, renderVars, loopVars, traceVars>>
lookupVars == <<aircraft_db, db_cache, fallback_cache, cache_file,
                last_fallback_request, lookup>>
threadVars == <<calls, request_times>>
inferVars == <<faa_db, inference>>
restartVars == <<poll_threads, poll_thread>>
restVars == <<polled_states, lookupVars, threadVars, inferVars, restartVars>>

\* ------------------------------------------------------------- helpers
\* the hex codes of a flight list
Present(fl) == {fl[i].icao24 : i \in 1..Len(fl)}

NoCooldowns == [h \in Hexes |-> NoTime]

\* ------------------------------------------- Interruption session manager
\* A definition named ...Mutant is a faulty variant of the definition that
\* follows it; no specification uses it.
\* The session state has_live_content works on.
SessionState == [active |-> interruption_active,
                 start |-> interruption_start_time,
                 cooldown |-> cooldown_flights]

Outcome(a, s, cd, r) == [active |-> a, start |-> s, cooldown |-> cd, ret |-> r]

\* _clean_cooldown_flights: drop the entries older than cooldown_duration.
clean_cooldown_flights(cd, t) ==
    [h \in Hexes |-> IF cd[h] # NoTime /\ t - cd[h] > cooldown_duration
                     THEN NoTime ELSE cd[h]]

\* lines 855-858: some flight of the copy is not a key of the cooldown dict
has_new(cf, cd) == \E i \in 1..Len(cf) : cd[cf[i].icao24] = NoTime

\* lines 877-878: elapsed >= self._max_interruption_time
TimedOutLateMutant(t, start) == t - start > max_interruption_time

timed_out(t, start) == t - start >= max_interruption_time

\* lines 838-844: no flights in range
EmptyClearsMutant(st, t) == Outcome(FALSE, NoTime, NoCooldowns, FALSE)

EmptyCleansMutant(st, t) ==
    Outcome(FALSE, NoTime, clean_cooldown_flights(st.cooldown, t), FALSE)

no_flights(st, t) ==
    IF st.active
    THEN Outcome(FALSE, NoTime, st.cooldown, FALSE)
    ELSE Outcome(st.active, st.start, st.cooldown, FALSE)

\* lines 860-870: start a new interruption session
StartNoStampMutant(cf, t, cd) ==
    Outcome(TRUE, NoTime,
            [h \in Hexes |-> IF h \in Present(cf) THEN t ELSE cd[h]],
            TRUE)

StartOnlyNewMutant(cf, t, cd) ==
    Outcome(TRUE, t,
            [h \in Hexes |-> IF h \in Present(cf) /\ cd[h] = NoTime
                             THEN t ELSE cd[h]],
            TRUE)

start_session(cf, t, cd) ==
    Outcome(TRUE, t,
            [h \in Hexes |-> IF h \in Present(cf) THEN t ELSE cd[h]],
            TRUE)

\* lines 871-873: every flight is in cooldown, no interruption
IdleRefreshMutant(st, cf, t, cd) ==
    Outcome(st.active, st.start,
            [h \in Hexes |-> IF h \in Present(cf) THEN t ELSE cd[h]],
            FALSE)

stay_idle(st, cf, t, cd) == Outcome(st.active, st.start, cd, FALSE)

\* lines 878-887: max display time exceeded
TimeoutNoRefreshMutant(cf, t, cd) == Outcome(FALSE, NoTime, cd, FALSE)

end_on_timeout(cf, t, cd) ==
    Outcome(FALSE, NoTime,
            [h \in Hexes |-> IF h \in Present(cf) THEN t ELSE cd[h]],
            FALSE)

\* lines 889-904: still within the limit; a flight not in cooldown is added
\* to the cooldown dict and resets the timer
ContinueNoResetMutant(st, cf, t, cd) ==
    Outcome(TRUE, st.start,
            [h \in Hexes |-> IF h \in Present(cf) /\ cd[h] = NoTime
                             THEN t ELSE cd[h]],
            TRUE)

continue_session(st, cf, t, cd) ==
    Outcome(TRUE,
            IF has_new(cf, cd) THEN t ELSE st.start,
            [h \in Hexes |-> IF h \in Present(cf) /\ cd[h] = NoTime
                             THEN t ELSE cd[h]],
            TRUE)

\* has_live_content after the copy of the list was taken (lines 837-904):
\* cf is the copy, t the clock, st the session state.
has_live_content(cf, t, st) ==
    IF Len(cf) = 0
    THEN no_flights(st, t)
    ELSE LET cd == clean_cooldown_flights(st.cooldown, t)
         IN  IF ~st.active
             THEN IF has_new(cf, cd)
                  THEN start_session(cf, t, cd)
                  ELSE stay_idle(st, cf, t, cd)
             ELSE IF timed_out(t, st.start)
                  THEN end_on_timeout(cf, t, cd)
                  ELSE continue_session(st, cf, t, cd)

\* The unexpired part of a cooldown dict, as the claims speak of it.
in_cooldown(cd, h, t) == cd[h] # NoTime /\ t - cd[h] <= cooldown_duration

NoEvaluation == [seq |-> 0, ret |-> FALSE, case |-> "none", old |-> FALSE,
                 new |-> FALSE, lingered |-> FALSE, extended |-> FALSE]

\* History of an evaluation: seq flips at every evaluation, ret is the value
\* returned, case the transition taken; old / new: some aircraft of the copy
\* was / was not in cooldown; lingered: one in cooldown had its cooldown set
\* at an earlier tick; extended: the session is still running
\* max_interruption_time or more after it left Idle.
\* case_of: which transition of the session an evaluation took.
case_of(cf, st, out) ==
    IF Len(cf) = 0 THEN (IF st.active THEN "left" ELSE "empty")
    ELSE IF ~st.active THEN (IF out.active THEN "start" ELSE "idle")
    ELSE IF ~out.active THEN "timeout"
    ELSE IF out.start # st.start THEN "reset" ELSE "continue"

\* has_live_content, lines 824-904: copy the list under the lock, decide on
\* the copy.  keep_log says whether the evaluation goes to the scenario log.
Evaluate(keep_log) ==
    /\ lock = "free"
    /\ LET st == SessionState
           cf == live_flights
           out == has_live_content(cf, now, st)
       IN  /\ interruption_active' = out.active
           /\ interruption_start_time' = out.start
           /\ cooldown_flights' = out.cooldown
           /\ session_origin' =
                 IF ~out.active THEN NoTime
                 ELSE IF ~st.active THEN now ELSE session_origin
           /\ ev' = [seq |-> 1 - ev.seq, ret |-> out.ret,
                     case |-> case_of(cf, st, out),
                     old |-> \E h \in Present(cf) :
                                in_cooldown(st.cooldown, h, now),
                     new |-> \E h \in Present(cf) :
                                ~in_cooldown(st.cooldown, h, now),
                     lingered |-> \E h \in Present(cf) :
                                     /\ in_cooldown(st.cooldown, h, now)
                                     /\ st.cooldown[h] < now,
                     extended |-> /\ out.active /\ st.active
                                  /\ now - session_origin >= max_interruption_time]
           /\ last_set' = [h \in Hexes |->
                 IF out.cooldown[h] # NoTime THEN out.cooldown[h]
                 ELSE last_set[h]]
           /\ log' = IF keep_log
                     THEN (IF Len(log) < 3 THEN log ELSE Tail(log))
                          \o <<[at |-> now, ret |-> out.ret,
                                was_active |-> st.active,
                                active |-> out.active]>>
                     ELSE log
    /\ UNCHANGED <<now, configVars, restVars, otherVars, bridgeVars, pollerVars, lock>>

HasLiveContent == Evaluate(FALSE)

\* ------------------------------------------------------------------ clock
Tick ==
    /\ now < MaxTime
    /\ now' = now + 1
    /\ UNCHANGED <<configVars, restVars, otherVars, bridgeVars, pollerVars, lock, sessionVars, historyVars>>

\* ---------------------------------------------------------- Position poller
\* One OpenSky state vector, by the columns _fetch_flights_internal reads
\* (lines 667-678); distance_km is what _calculate_distance gives for its
\* latitude and longitude.
NoAltitude == -1         \* baro_altitude null
Vector(h, cs, pos, alt, gnd, d) ==
    [icao24 |-> h, callsign |-> cs, has_position |-> pos, altitude_m |-> alt,
     on_ground |-> gnd, distance_km |-> d]

\* lines 680-686: the record is skipped
skipped(v) ==
    \/ v.callsign = ""
    \/ ~v.has_position
    \/ v.on_ground
    \/ (v.altitude_m # NoAltitude /\ v.altitude_m # 0 /\ v.altitude_m < min_altitude_m)

\* lines 700-718: the record appended for a state vector
flight_of(v) == [icao24 |-> v.icao24, distance_km |-> v.distance_km]

\* lines 661-721: the loop over the state vectors, stopping at max_flights
RECURSIVE collect(_, _, _)
collect(states, i, acc) ==
    IF i > Len(states) THEN acc
    ELSE IF skipped(states[i]) THEN collect(states, i + 1, acc)
    ELSE LET acc2 == Append(acc, flight_of(states[i]))
         IN  IF Len(acc2) >= max_flights THEN acc2
             ELSE collect(states, i + 1, acc2)

\* list.sort(key=distance_km) is stable: insert after the records that are
\* not farther away
RECURSIVE insert_sorted(_, _)
insert_sorted(f, sorted) ==
    IF sorted = <<>> THEN <<f>>
    ELSE IF f.distance_km < Head(sorted).distance_km THEN <<f>> \o sorted
    ELSE <<Head(sorted)>> \o insert_sorted(f, Tail(sorted))

RECURSIVE sort_by_distance(_)
sort_by_distance(fl) ==
    IF fl = <<>> THEN <<>>
    ELSE insert_sorted(fl[Len(fl)], sort_by_distance(SubSeq(fl, 1, Len(fl) - 1)))

\* lines 657-724
process_states(states) == sort_by_distance(collect(states, 1, <<>>))

\* The state vectors the positions endpoint answers with in these runs:
\* aircraft in the air at one of the given distances, and aircraft standing
\* on the ground.
Airborne(dists) ==
    {Vector(h, "CS", TRUE, 3, FALSE, d) : h \in Hexes, d \in dists}

Grounded == {Vector(h, "CS", TRUE, 0, TRUE, 1) : h \in Hexes}

\* Answers of at most two of the given state vectors, no aircraft twice.
Responses(vectors) ==
    {<<>>} \cup {<<v>> : v \in vectors}
    \cup {<<p[1], p[2]>> :
            p \in {q \in vectors \X vectors : q[1].icao24 # q[2].icao24}}

\* lines 604-620: disabled or outside the polling window
PollOutsideWindow ==
    /\ ppc = "sleep"
    /\ poll_time' = now
    /\ ppc' = "clear"
    /\ UNCHANGED <<now, configVars, restVars, otherVars, bridgeVars, last_update,
                   consecutive_errors, new_live_flights, lock, sessionVars, historyVars>>

ClearLock ==
    /\ ppc = "clear"
    /\ lock = "free"
    /\ lock' = "poller"
    /\ ppc' = "clear_list"
    /\ UNCHANGED <<now, configVars, restVars, otherVars, bridgeVars, last_update,
                   consecutive_errors, poll_time, new_live_flights,
                   sessionVars, historyVars>>

ClearList ==
    /\ ppc = "clear_list"
    /\ live_flights' = <<>>
    /\ ppc' = "clear_current"
    /\ UNCHANGED <<now, configVars, restVars, otherVars, current_flight, current_flight_index,
                   last_flight_switch, last_update, consecutive_errors,
                   poll_time, new_live_flights, lock, sessionVars, historyVars>>

ClearCurrent ==
    /\ ppc = "clear_current"
    /\ current_flight' = NoFlight
    /\ lock' = "free"
    /\ ppc' = "sleep"
    /\ poll_time' = 0
    /\ UNCHANGED <<now, configVars, restVars, otherVars, live_flights, current_flight_index,
                   last_flight_switch, last_update, consecutive_errors,
                   new_live_flights, sessionVars, historyVars>>

\* lines 602-724 on the path of a 200 answer: read the clock, request the
\* positions (no lock held), build new_live_flights
Fetch(answers) ==
    /\ ppc = "sleep"
    /\ poll_time' = now
    /\ \E states \in answers : new_live_flights' = process_states(states)
    /\ ppc' = "publish"
    /\ UNCHANGED <<now, configVars, restVars, otherVars, bridgeVars, last_update,
                   consecutive_errors, lock, sessionVars,
                   historyVars>>

PublishUnlockedMutant ==
    /\ ppc = "publish"
    /\ ppc' = "publish_list"
    /\ UNCHANGED <<now, configVars, restVars, otherVars, bridgeVars, last_update,
                   consecutive_errors, poll_time, new_live_flights, lock,
                   sessionVars, historyVars>>

PublishLock ==
    /\ ppc = "publish"
    /\ lock = "free"
    /\ lock' = "poller"
    /\ ppc' = "publish_list"
    /\ UNCHANGED <<now, configVars, restVars, otherVars, bridgeVars, last_update,
                   consecutive_errors, poll_time, new_live_flights,
                   sessionVars, historyVars>>

\* line 728
PublishList ==
    /\ ppc = "publish_list"
    /\ live_flights' = new_live_flights
    /\ ppc' = "publish_current"
    /\ UNCHANGED <<now, configVars, restVars, otherVars, current_flight, current_flight_index,
                   last_flight_switch, last_update, consecutive_errors,
                   poll_time, new_live_flights, lock, sessionVars, historyVars>>

Selection(cur, idx, sw) == [current |-> cur, index |-> idx, switch |-> sw]

SelectKeepsAbsentMutant(lf, cur, idx, sw, t) ==
    IF Len(lf) > 0
    THEN IF cur = NoFlight
         THEN Selection(lf[1], 0, t)
         ELSE Selection(cur, idx, sw)
    ELSE Selection(NoFlight, idx, sw)

\* lines 731-741: the selection after the list was replaced
select_on_publish(lf, cur, idx, sw, t) ==
    IF Len(lf) > 0
    THEN IF cur = NoFlight \/ cur.icao24 \notin Present(lf)
         THEN Selection(lf[1], 0, t)
         ELSE Selection(cur, idx, sw)
    ELSE Selection(NoFlight, idx, sw)

PublishKeepsLockMutant ==
    /\ ppc = "publish_current"
    /\ LET sel == select_on_publish(live_flights, current_flight,
                                    current_flight_index, last_flight_switch,
                                    poll_time)
       IN  /\ current_flight' = sel.current
           /\ current_flight_index' = sel.index
           /\ last_flight_switch' = sel.switch
    /\ last_update' = poll_time
    /\ consecutive_errors' = 0
    /\ new_live_flights' = <<>>
    /\ ppc' = "sleep"
    /\ UNCHANGED <<now, configVars, restVars, otherVars, live_flights, poll_time, lock,
                   sessionVars, historyVars>>

\* lines 731-744: fix the selection, release the lock, note the success
PublishCurrent ==
    /\ ppc = "publish_current"
    /\ LET sel == select_on_publish(live_flights, current_flight,
                                    current_flight_index, last_flight_switch,
                                    poll_time)
       IN  /\ current_flight' = sel.current
           /\ current_flight_index' = sel.index
           /\ last_flight_switch' = sel.switch
    /\ lock' = "free"
    /\ last_update' = poll_time
    /\ consecutive_errors' = 0
    /\ new_live_flights' = <<>>
    /\ ppc' = "sleep"
    /\ UNCHANGED <<now, configVars, restVars, otherVars, live_flights, poll_time, sessionVars, historyVars>>

\* ------------------------------------------------------------ render path
\* update(), lines 775-789: rotate the selection, all under the lock
Update ==
    /\ lock = "free"
    /\ IF Len(live_flights) > 1 /\ now - last_flight_switch >= flight_display_duration
       THEN /\ current_flight_index' =
                   (current_flight_index + 1) % Len(live_flights)
            /\ current_flight' = live_flights[current_flight_index' + 1]
            /\ last_flight_switch' = now
       ELSE UNCHANGED <<current_flight, current_flight_index,
                        last_flight_switch>>
    /\ UNCHANGED <<now, configVars, restVars, otherVars, live_flights, pollerVars, lock,
                   sessionVars, historyVars>>

\* ---------------------------------------------------------- specifications
\* Python None for access_token
NoToken == "None"

\* No poll cycle has run yet.  result: the way the cycle ended; within:
\* what the polling-window check answered (or would have); exchange /
\* positions: it issued a token-exchange / a positions request; early: it
\* issued a token exchange although the stored expiry time was more than
\* the refresh margin ahead; resumed: it found the error counter at its
\* maximum with the backoff time over, and reset it.
NoCycle == [result |-> "none", within |-> TRUE, exchange |-> FALSE,
            positions |-> FALSE, early |-> FALSE, resumed |-> FALSE]

\* icao24 codes looked up
Codes == Hexes \cup {"c3"}

\* Entries of the fallback cache: no key, the None marker, a result
Absent == "absent"
NotFound == "None"
Found == "hexdb.io"
NoEntries == [h \in Codes |-> Absent]

\* What a lookup returns: {} or a result of the database or of hexdb.io
Empty == "empty"
NoAnswer == [status |-> 0, body |-> ""]
NoLookup ==
    [icao24 |-> "None", at |-> 0, result |-> Empty, requested |-> FALSE,
     answer |-> NoAnswer]

\* The registry before MASTER.txt is loaded (faa_database.py lines 92-97)
NoDict == [k \in {} |-> ""]
NoRegistry == [loaded |-> FALSE, by_icao24 |-> NoDict, by_nnumber |-> NoDict]

\* None for a callsign, hex code, altitude or speed argument
None == "None"
NoValue == -1            \* None for a number
NoInference ==
    [callsign |-> "", altitude_ft |-> NoValue, speed_knots |-> NoValue,
     icao24 |-> None, type |-> None, manager_type |-> None]

\* The poll threads a run can create (threading.Thread objects, line 167),
\* a thread not created yet, and None for self._poll_thread
PollThreads == {1, 2}
NotStarted == [pc |-> "not_started", sleep_time |-> 0]
NoThread == 0

\* Threads that call the shared lookup module
Threads == {"t1", "t2"}
NoCall == [pc |-> "idle", icao24 |-> "None", current_time |-> 0]

\* The stop event is not set.  cycles / sleeps: poll cycles and sleep
\* increments the loop began after the event was set; steps: loop steps
\* taken after it was set.
NothingAfterStop == [cycles |-> 0, sleeps |-> 0, steps |-> 0]

\* FlightLiveManager.__init__, lines 76-107, with a configuration
\* lines 53-135: the fields after __init__, with the aircraft database loaded
\* and no fallback cache file yet
Fields ==
    /\ cooldown_duration \in 1..MaxCooldown
    /\ max_interruption_time \in 1..MaxInterruption
    /\ current_flight_index = 0
    /\ last_flight_switch = 0
    /\ last_update = 0
    /\ consecutive_errors = 0
    /\ lock = "free"
    /\ ppc = "sleep"
    /\ poll_time = 0
    /\ new_live_flights = <<>>
    /\ interruption_active = FALSE
    /\ interruption_start_time = NoTime
    /\ cooldown_flights = NoCooldowns
    /\ ev = NoEvaluation
    /\ session_origin = NoTime
    /\ last_set = NoCooldowns
    /\ log = <<>>
    /\ access_token = NoToken
    /\ token_expiry = 0
    /\ last_error_time = 0
    /\ rpc = "idle"
    /\ current_flights = <<>>
    /\ lpc = "not_started"
    /\ sleep_time = 0
    /\ stop_event = FALSE
    /\ polling_active = FALSE
    /\ cycle = NoCycle
    /\ after_stop = NothingAfterStop
    /\ polled_states = <<>>
    /\ aircraft_db = "ready"
    /\ db_cache = <<>>
    /\ fallback_cache = NoEntries
    /\ cache_file = NoEntries
    /\ last_fallback_request = 0
    /\ lookup = NoLookup
    /\ calls = [th \in Threads |-> NoCall]
    /\ request_times = <<>>
    /\ faa_db = NoRegistry
    /\ inference = NoInference
    /\ poll_threads = [i \in PollThreads |-> NotStarted]
    /\ poll_thread = NoThread

Constructed ==
    /\ now = 0
    /\ Fields

\* lines 53-69: tracking enabled, both credentials configured, the default
\* polling window
Defaults ==
    /\ enabled = TRUE
    /\ client_credentials = TRUE
    /\ start_hour = 6
    /\ end_hour = 23

Init ==
    /\ Constructed
    /\ Defaults
    /\ live_flights = <<>>
    /\ current_flight = NoFlight

\* A poll cycle as the render path sees it.  The render path reads the list
\* and the selection only under the lock, so it sees each of the two critical
\* sections of _fetch_flights_internal as one step.
\* lines 604-620: disabled or outside the polling window
OutsideWindowCycle ==
    /\ ppc = "sleep"
    /\ lock = "free"
    /\ live_flights' = <<>>
    /\ current_flight' = NoFlight
    /\ UNCHANGED <<now, configVars, restVars, otherVars, current_flight_index, last_flight_switch,
                   pollerVars, lock, sessionVars, historyVars>>

\* lines 602-744 on the path of a 200 answer
PublishCycle(answers) ==
    /\ ppc = "sleep"
    /\ lock = "free"
    /\ \E states \in answers :
          LET new == process_states(states)
              sel == select_on_publish(new, current_flight,
                                       current_flight_index,
                                       last_flight_switch, now)
          IN  /\ live_flights' = new
              /\ current_flight' = sel.current
              /\ current_flight_index' = sel.index
              /\ last_flight_switch' = sel.switch
    /\ last_update' = now
    /\ consecutive_errors' = 0
    /\ UNCHANGED <<now, configVars, restVars, otherVars, ppc, poll_time, new_live_flights, lock,
                   sessionVars, historyVars>>

\* The interruption session manager fed by the poller.  has_live_content
\* reads nothing of the poller but the published list; in these runs all
\* aircraft are in the air at distance 1.
PollNear == PublishCycle(Responses(Airborne({1})))

Next ==
    \/ Tick
    \/ OutsideWindowCycle
    \/ PollNear
    \/ HasLiveContent

Spec == Init /\ [][Next]_vars

\* ---------------------------------------------------------------------
\* The poller and the render path step by step: every critical section is
\* entered, carried out and left in separate steps.
InitBridge ==
    /\ Init
    /\ cooldown_duration = MaxCooldown
    /\ max_interruption_time = MaxInterruption

PollAny == Fetch(Responses(Airborne(1..MaxDist) \cup Grounded))

NextBridge ==
    \/ Tick
    \/ PollOutsideWindow
    \/ ClearLock
    \/ ClearList
    \/ ClearCurrent
    \/ PollAny
    \/ PublishLock
    \/ PublishList
    \/ PublishCurrent
    \/ Update

SpecBridge == InitBridge /\ [][NextBridge]_vars

\* ---------------------------------------------------------------------
\* One aircraft continuously in range: a first poll at time 0 has published
\* it and no later poll changes the list; the evaluations are logged.
InitSingle ==
    /\ Constructed
    /\ Defaults
    /\ \E h \in Hexes :
          /\ live_flights = <<[icao24 |-> h, distance_km |-> 1]>>
          /\ current_flight = live_flights[1]

HasLiveContentLogged == Evaluate(TRUE)

NextSingle ==
    \/ Tick
    \/ HasLiveContentLogged

SpecSingle == InitSingle /\ [][NextSingle]_vars

\* ---------------------------------------------------------------------
\* Credentials, polling window and error backoff of the poller.
\* _is_within_polling_window, lines 217-226
is_within_polling_window(current_hour, sh, eh) ==
    IF sh <= eh
    THEN sh <= current_hour /\ current_hour < eh
    ELSE current_hour >= sh \/ current_hour < eh

Hours == 0..23           \* datetime.now().hour

\* What the window check can answer at some hour of the day.
WindowChecks == {is_within_polling_window(h, start_hour, end_hour) : h \in Hours}

\* A request that raised instead of answering, written as a status code.
Raised == 0

\* Answers of the token endpoint: 200 with a token living expires_in
\* seconds, a refusal, or no answer at all.
TokenAnswers(lifetimes) ==
    {[status |-> 200, expires_in |-> e] : e \in lifetimes}
    \cup {[status |-> s, expires_in |-> 0] : s \in {403, Raised}}

\* Token lifetimes: inside the refresh margin two polls later, or far away.
Lifetimes == {refresh_margin + 2 * update_interval, 3600}

\* Answers of the positions endpoint: 200 with state vectors, 401, another
\* status, or an exception raised by the request or while reading the body.
PositionsAnswers(vectors) ==
    {[status |-> 200, states |-> s] : s \in Responses(vectors)}
    \cup {[status |-> s, states |-> <<>>] : s \in {401, 500, Raised}}

CachedToExpiryMutant(token, expiry, t) == token # NoToken /\ t < expiry

\* line 238: the cached token is still good
token_cached(token, expiry, t) == token # NoToken /\ t < expiry - refresh_margin

\* _refresh_oauth_token, lines 228-270, at time t with the token endpoint
\* answering answer: ok is the value returned, exchanged whether the
\* request of line 254 was issued.
refresh_oauth_token(token, expiry, t, answer) ==
    IF ~client_credentials
    THEN [ok |-> FALSE, token |-> token, expiry |-> expiry, exchanged |-> FALSE]
    ELSE IF token_cached(token, expiry, t)
    THEN [ok |-> TRUE, token |-> token, expiry |-> expiry, exchanged |-> FALSE]
    ELSE IF answer.status = 200
    THEN [ok |-> TRUE, token |-> "token", expiry |-> t + answer.expires_in,
          exchanged |-> TRUE]
    ELSE [ok |-> FALSE, token |-> token, expiry |-> expiry, exchanged |-> TRUE]

\* The fields _fetch_flights_internal reads and writes.
PollerState ==
    [live_flights |-> live_flights, current_flight |-> current_flight,
     current_flight_index |-> current_flight_index,
     last_flight_switch |-> last_flight_switch, last_update |-> last_update,
     consecutive_errors |-> consecutive_errors,
     last_error_time |-> last_error_time, access_token |-> access_token,
     token_expiry |-> token_expiry]

Cycle(result, within, exchange, positions, early, resumed) ==
    [result |-> result, within |-> within, exchange |-> exchange,
     positions |-> positions, early |-> early, resumed |-> resumed]

ClearListOnlyMutant(s) == [s EXCEPT !.live_flights = <<>>]

\* lines 606-608 and 617-619
cleared(s) == [s EXCEPT !.live_flights = <<>>, !.current_flight = NoFlight]

ErrorEmptiesMutant(s, t) ==
    [s EXCEPT !.consecutive_errors = @ + 1, !.last_error_time = t,
              !.live_flights = <<>>, !.current_flight = NoFlight]

\* lines 633-634, 761-762, 767-768, 772-773
count_error(s, t) ==
    [s EXCEPT !.consecutive_errors = @ + 1, !.last_error_time = t]

NoBackoffMutant(s, t) == FALSE

\* lines 622-629: the cycle is skipped
in_backoff(s, t) ==
    /\ s.consecutive_errors >= max_consecutive_errors
    /\ t - s.last_error_time < error_backoff_time

\* lines 626-629: the counter as the cycle goes on with it
after_backoff(s) ==
    IF s.consecutive_errors >= max_consecutive_errors
    THEN [s EXCEPT !.consecutive_errors = 0]
    ELSE s

\* lines 727-744: a 200 answer is published
published(s, t, states) ==
    LET new == process_states(states)
        sel == select_on_publish(new, s.current_flight,
                                 s.current_flight_index,
                                 s.last_flight_switch, t)
    IN  [s EXCEPT !.live_flights = new, !.current_flight = sel.current,
                  !.current_flight_index = sel.index,
                  !.last_flight_switch = sel.switch,
                  !.last_update = t, !.consecutive_errors = 0]

UnauthorizedKeepsTokenMutant(s, t, pa) ==
    IF pa.status = 200 THEN published(s, t, pa.states)
    ELSE count_error(s, t)

\* lines 650-773: the positions request and what follows its answer
request_positions(s, t, pa) ==
    IF pa.status = 200 THEN published(s, t, pa.states)
    ELSE IF pa.status = 401
    THEN count_error([s EXCEPT !.access_token = NoToken], t)
    ELSE count_error(s, t)

positions_result(pa) ==
    IF pa.status = 200 THEN "ok"
    ELSE IF pa.status = 401 THEN "unauthorized"
    ELSE IF pa.status = Raised THEN "exception"
    ELSE "status"

\* _fetch_flights_internal, lines 597-773, as one step: at time t, with the
\* window check answering within, the token endpoint ta and the positions
\* endpoint pa.  Gives the fields after the cycle and what the cycle did.
fetch_flights_internal(s, t, within, ta, pa) ==
    IF ~enabled
    THEN [state |-> cleared(s), did |-> Cycle("disabled", within, FALSE, FALSE, FALSE, FALSE)]
    ELSE IF ~within
    THEN [state |-> cleared(s), did |-> Cycle("outside", FALSE, FALSE, FALSE, FALSE, FALSE)]
    ELSE IF in_backoff(s, t)
    THEN [state |-> s, did |-> Cycle("backoff", TRUE, FALSE, FALSE, FALSE, FALSE)]
    ELSE LET s1 == after_backoff(s)
             r == refresh_oauth_token(s1.access_token, s1.token_expiry, t, ta)
             s2 == [s1 EXCEPT !.access_token = r.token,
                              !.token_expiry = r.expiry]
             early == r.exchanged /\ t < s1.token_expiry - refresh_margin
             resumed == s.consecutive_errors >= max_consecutive_errors
         IN  IF ~r.ok
             THEN [state |-> count_error(s2, t),
                   did |-> Cycle("token_failed", TRUE, r.exchanged, FALSE, early,
                                 resumed)]
             ELSE [state |-> request_positions(s2, t, pa),
                   did |-> Cycle(positions_result(pa), TRUE, r.exchanged,
                                 TRUE, early, resumed)]

\* One iteration of _background_poll_loop, lines 202-213: a poll cycle, then
\* the sleep of update_interval seconds.
PollIteration(lifetimes, vectors) ==
    /\ now < MaxCycles * update_interval
    /\ \E within \in WindowChecks, ta \in TokenAnswers(lifetimes),
          pa \in PositionsAnswers(vectors) :
          LET out == fetch_flights_internal(PollerState, now, within, ta, pa)
          IN  /\ live_flights' = out.state.live_flights
              /\ current_flight' = out.state.current_flight
              /\ current_flight_index' = out.state.current_flight_index
              /\ last_flight_switch' = out.state.last_flight_switch
              /\ last_update' = out.state.last_update
              /\ consecutive_errors' = out.state.consecutive_errors
              /\ last_error_time' = out.state.last_error_time
              /\ access_token' = out.state.access_token
              /\ token_expiry' = out.state.token_expiry
              /\ cycle' = out.did
    /\ now' = now + update_interval
    /\ UNCHANGED <<configVars, restVars, windowVars, ppc, poll_time, new_live_flights,
                   lock, sessionVars, historyVars, renderVars, loopVars,
                   after_stop>>

\* Configurations of the poller: the defaults, tracking disabled, and no
\* credentials with a polling window that crosses midnight.
Configurations ==
    {[enabled |-> TRUE, credentials |-> TRUE, start |-> 6, end |-> 23],
     [enabled |-> FALSE, credentials |-> TRUE, start |-> 6, end |-> 23],
     [enabled |-> TRUE, credentials |-> FALSE, start |-> 22, end |-> 5]}

InitPoller ==
    /\ Constructed
    /\ cooldown_duration = MaxCooldown
    /\ max_interruption_time = MaxInterruption
    /\ \E c \in Configurations :
          /\ enabled = c.enabled
          /\ client_credentials = c.credentials
          /\ start_hour = c.start
          /\ end_hour = c.end
    /\ live_flights = <<>>
    /\ current_flight = NoFlight

\* In these runs one aircraft comes and goes.
OneNear == {Vector("a1", "CS", TRUE, 3, FALSE, 1)}

PollLoop == PollIteration(Lifetimes, OneNear)

NextPoller == PollLoop

SpecPoller == InitPoller /\ [][NextPoller]_vars

\* ---------------------------------------------------------------------
\* Both threads step by step: the poller with each of its requests in
\* flight, the render thread inside each of its operations.  The clock
\* stands still in these runs.
\* lines 602-635 up to the request of line 254 or of line 650
BeginFetch ==
    /\ ppc = "sleep"
    /\ enabled
    /\ TRUE \in WindowChecks
    /\ poll_time' = now
    /\ IF in_backoff(PollerState, now)
       THEN UNCHANGED <<consecutive_errors, last_error_time, ppc>>
       ELSE IF ~client_credentials
       THEN /\ consecutive_errors' =
                  after_backoff(PollerState).consecutive_errors + 1
            /\ last_error_time' = now
            /\ ppc' = "sleep"
       ELSE /\ consecutive_errors' =
                  after_backoff(PollerState).consecutive_errors
            /\ last_error_time' = last_error_time
            /\ ppc' = IF token_cached(access_token, token_expiry, now)
                      THEN "positions_request" ELSE "token_request"
    /\ UNCHANGED <<now, configVars, restVars, windowVars, bridgeVars, last_update,
                   new_live_flights, lock, sessionVars, historyVars,
                   access_token, token_expiry, renderVars, loopVars,
                   traceVars>>

\* lines 254-270 and 631-635: the token endpoint answers
TokenAnswer(lifetimes) ==
    /\ ppc = "token_request"
    /\ \E ta \in TokenAnswers(lifetimes) :
          LET r == refresh_oauth_token(access_token, token_expiry, now, ta)
          IN  /\ access_token' = r.token
              /\ token_expiry' = r.expiry
              /\ IF r.ok
                 THEN /\ ppc' = "positions_request"
                      /\ UNCHANGED <<consecutive_errors, last_error_time>>
                 ELSE /\ ppc' = "sleep"
                      /\ consecutive_errors' = consecutive_errors + 1
                      /\ last_error_time' = poll_time
    /\ UNCHANGED <<now, configVars, restVars, windowVars, bridgeVars, last_update,
                   poll_time, new_live_flights, lock, sessionVars,
                   historyVars, renderVars, loopVars, traceVars>>

\* lines 650-724 and 759-773: the positions endpoint answers; an aircraft
\* kept and missing from the local database is looked up at hexdb.io
PositionsAnswer(vectors) ==
    /\ ppc = "positions_request"
    /\ \E pa \in PositionsAnswers(vectors) :
          IF pa.status = 200
          THEN /\ new_live_flights' = process_states(pa.states)
               /\ ppc' \in IF new_live_flights' = <<>> THEN {"publish"}
                           ELSE {"publish", "lookup_request"}
               /\ UNCHANGED <<consecutive_errors, last_error_time,
                              access_token>>
          ELSE /\ access_token' =
                     IF pa.status = 401 THEN NoToken ELSE access_token
               /\ consecutive_errors' = consecutive_errors + 1
               /\ last_error_time' = poll_time
               /\ ppc' = "sleep"
               /\ UNCHANGED new_live_flights
    /\ UNCHANGED <<now, configVars, restVars, windowVars, bridgeVars, last_update,
                   poll_time, lock, sessionVars, historyVars, token_expiry,
                   renderVars, loopVars, traceVars>>

\* line 483 in _fallback_lookup: hexdb.io answers or the request fails;
\* either way the record is appended with what is known
LookupAnswer ==
    /\ ppc = "lookup_request"
    /\ ppc' = "publish"
    /\ UNCHANGED <<now, configVars, restVars, otherVars, bridgeVars, last_update,
                   consecutive_errors, poll_time, new_live_flights, lock,
                   sessionVars, historyVars>>

\* The render thread starts an operation that begins by taking the lock:
\* has_live_content (833), update (784), display (796).
RenderLock ==
    /\ rpc = "idle"
    /\ lock = "free"
    /\ lock' = "render"
    /\ rpc' \in {"hlc_copy", "update", "display_copy"}
    /\ UNCHANGED <<now, configVars, restVars, windowVars, authVars, current_flights,
                   loopVars, traceVars, bridgeVars, pollerVars, sessionVars,
                   historyVars>>

\* has_live_content, lines 834-835: copy the list, leave the lock
HlcCopy ==
    /\ rpc = "hlc_copy"
    /\ current_flights' = live_flights
    /\ lock' = "free"
    /\ rpc' = "hlc_session"
    /\ UNCHANGED <<now, configVars, restVars, windowVars, authVars, loopVars,
                   traceVars, bridgeVars, pollerVars, sessionVars,
                   historyVars>>

\* has_live_content, lines 837-904: the session transition on the copy
HlcSession ==
    /\ rpc = "hlc_session"
    /\ LET out == has_live_content(current_flights, now, SessionState)
       IN  /\ interruption_active' = out.active
           /\ interruption_start_time' = out.start
           /\ cooldown_flights' = out.cooldown
    /\ current_flights' = <<>>
    /\ rpc' = "idle"
    /\ UNCHANGED <<now, configVars, restVars, windowVars, authVars, loopVars,
                   traceVars, bridgeVars, pollerVars, lock, historyVars>>

\* update, lines 785-789, inside the lock
UpdateRotate ==
    /\ rpc = "update"
    /\ IF Len(live_flights) > 1 /\ now - last_flight_switch >= flight_display_duration
       THEN /\ current_flight_index' =
                   (current_flight_index + 1) % Len(live_flights)
            /\ current_flight' = live_flights[current_flight_index' + 1]
            /\ last_flight_switch' = now
       ELSE UNCHANGED <<current_flight, current_flight_index,
                        last_flight_switch>>
    /\ lock' = "free"
    /\ rpc' = "idle"
    /\ UNCHANGED <<now, configVars, restVars, windowVars, authVars, current_flights,
                   loopVars, traceVars, live_flights, pollerVars,
                   sessionVars, historyVars>>

DisplayRendersNoneMutant ==
    /\ rpc = "display_copy"
    /\ lock' = "free"
    /\ rpc' = "display_render"
    /\ UNCHANGED <<now, configVars, restVars, windowVars, authVars, current_flights,
                   loopVars, traceVars, bridgeVars, pollerVars, sessionVars,
                   historyVars>>

\* display, lines 797-802: copy the selection, leave the lock, return if
\* there is none
DisplayCopy ==
    /\ rpc = "display_copy"
    /\ lock' = "free"
    /\ rpc' = IF current_flight = NoFlight THEN "idle" ELSE "display_render"
    /\ UNCHANGED <<now, configVars, restVars, windowVars, authVars, current_flights,
                   loopVars, traceVars, bridgeVars, pollerVars, sessionVars,
                   historyVars>>

\* _create_flight_display, up to line 988: draw, then take the lock
DisplayRender ==
    /\ rpc = "display_render"
    /\ lock = "free"
    /\ lock' = "render"
    /\ rpc' = "display_count"
    /\ UNCHANGED <<now, configVars, restVars, windowVars, authVars, current_flights,
                   loopVars, traceVars, bridgeVars, pollerVars, sessionVars,
                   historyVars>>

\* _create_flight_display, lines 989-996: read the count and the index
DisplayCount ==
    /\ rpc = "display_count"
    /\ lock' = "free"
    /\ rpc' = "idle"
    /\ UNCHANGED <<now, configVars, restVars, windowVars, authVars, current_flights,
                   loopVars, traceVars, bridgeVars, pollerVars, sessionVars,
                   historyVars>>

\* live_games, lines 141-147: the property is entered and read
LiveGamesEnter ==
    /\ rpc = "idle"
    /\ rpc' = "live_games"
    /\ UNCHANGED <<now, configVars, restVars, windowVars, authVars, current_flights,
                   loopVars, traceVars, bridgeVars, pollerVars, lock,
                   sessionVars, historyVars>>

LiveGamesRead ==
    /\ rpc = "live_games"
    /\ rpc' = "idle"
    /\ UNCHANGED <<now, configVars, restVars, windowVars, authVars, current_flights,
                   loopVars, traceVars, bridgeVars, pollerVars, lock,
                   sessionVars, historyVars>>

\* The shared fields a thread touches at a position of its code.
accessed_by_poller(pc) ==
    CASE pc = "clear_list" -> {"live_flights"}
      [] pc = "clear_current" -> {"current_flight"}
      [] pc = "publish_list" -> {"live_flights"}
      [] pc = "publish_current" ->
            {"live_flights", "current_flight", "current_flight_index"}
      [] OTHER -> {}

accessed_by_render(pc) ==
    CASE pc = "hlc_copy" -> {"live_flights"}
      [] pc = "hlc_session" ->
            {"interruption_active", "interruption_start_time",
             "cooldown_flights"}
      [] pc = "update" ->
            {"live_flights", "current_flight", "current_flight_index"}
      [] pc = "display_copy" -> {"current_flight"}
      [] pc = "display_count" -> {"live_flights", "current_flight_index"}
      [] pc = "live_games" -> {"interruption_active", "live_flights"}
      [] OTHER -> {}

\* The endpoint a thread is waiting for at a position of its code.
requested_by_poller(pc) ==
    CASE pc = "token_request" -> {"auth.opensky-network.org"}
      [] pc = "positions_request" -> {"opensky-network.org"}
      [] pc = "lookup_request" -> {"hexdb.io"}
      [] OTHER -> {}

requested_by_render(pc) == {}

PollHere == PositionsAnswer(Airborne({1}))

TokenHere == TokenAnswer({3600})

NextLock ==
    \/ PollOutsideWindow
    \/ ClearLock
    \/ ClearList
    \/ ClearCurrent
    \/ BeginFetch
    \/ TokenHere
    \/ PollHere
    \/ LookupAnswer
    \/ PublishLock
    \/ PublishList
    \/ PublishCurrent
    \/ RenderLock
    \/ HlcCopy
    \/ HlcSession
    \/ UpdateRotate
    \/ DisplayCopy
    \/ DisplayRender
    \/ DisplayCount
    \/ LiveGamesEnter
    \/ LiveGamesRead

SpecLock == InitBridge /\ [][NextLock]_vars

\* ---------------------------------------------------------------------
\* Two aircraft continuously in range: a first poll at time 0 has published
\* both and selected the closest; every later poll answers with both again,
\* at any distances and in any order.
BothInRange == {r \in Responses(Airborne(1..MaxDist)) : Len(r) = 2}

InitRotate ==
    /\ Constructed
    /\ Defaults
    /\ \E r \in BothInRange : live_flights = process_states(r)
    /\ current_flight = live_flights[1]

PollBoth == PublishCycle(BothInRange)

NextRotate ==
    \/ Tick
    \/ PollBoth
    \/ Update

SpecRotate == InitRotate /\ [][NextRotate]_vars

\* ---------------------------------------------------------------------
\* The poll thread inside _background_poll_loop and the thread that starts
\* and stops it.  A poll cycle begins with the test of line 202 and a sleep
\* increment with the test of line 211; the clock moves with the sleeps.
\* What the loop did since the stop event was set.
noted(began_cycle, ended_sleep) ==
    IF stop_event
    THEN [cycles |-> after_stop.cycles + (IF began_cycle THEN 1 ELSE 0),
          sleeps |-> after_stop.sleeps + (IF ended_sleep THEN 1 ELSE 0),
          steps |-> after_stop.steps + 1]
    ELSE after_stop

\* start_background_polling, lines 153-174; a restart after a stop is not
\* followed in these runs
StartBackgroundPolling ==
    /\ enabled
    /\ ~polling_active
    /\ lpc = "not_started"
    /\ stop_event' = FALSE
    /\ lpc' = "check"
    /\ polling_active' = TRUE
    /\ UNCHANGED <<now, configVars, restVars, windowVars, authVars, renderVars,
                   sleep_time, traceVars, bridgeVars, pollerVars, lock,
                   sessionVars, historyVars>>

\* stop_background_polling, lines 176-188: set the event, wait for the thread
StopBackgroundPolling ==
    /\ polling_active
    /\ rpc = "idle"
    /\ stop_event' = TRUE
    /\ rpc' = "join"
    /\ UNCHANGED <<now, configVars, restVars, windowVars, authVars, current_flights,
                   lpc, sleep_time, polling_active, traceVars, bridgeVars,
                   pollerVars, lock, sessionVars, historyVars>>

\* lines 188-193: the thread has ended, or the 5 s of the join have run out
\* on a fetch in flight
Joined ==
    /\ rpc = "join"
    /\ lpc \in {"ended", "fetch"}
    /\ polling_active' = FALSE
    /\ rpc' = "idle"
    /\ UNCHANGED <<now, configVars, restVars, windowVars, authVars, current_flights,
                   lpc, sleep_time, stop_event, traceVars, bridgeVars,
                   pollerVars, lock, sessionVars, historyVars>>

\* line 202: the loop goes on with a poll cycle, or ends
LoopCheck ==
    /\ lpc = "check"
    /\ lpc' = IF stop_event THEN "ended" ELSE "fetch"
    /\ after_stop' = noted(~stop_event, FALSE)
    /\ UNCHANGED <<now, configVars, restVars, windowVars, authVars, renderVars,
                   sleep_time, stop_event, polling_active, cycle,
                   bridgeVars, pollerVars, lock, sessionVars, historyVars>>

\* lines 203-210: the poll cycle returns
FetchReturned(lifetimes, vectors) ==
    /\ lpc = "fetch"
    /\ \E within \in WindowChecks, ta \in TokenAnswers(lifetimes),
          pa \in PositionsAnswers(vectors) :
          LET out == fetch_flights_internal(PollerState, now, within, ta, pa)
          IN  /\ live_flights' = out.state.live_flights
              /\ current_flight' = out.state.current_flight
              /\ current_flight_index' = out.state.current_flight_index
              /\ last_flight_switch' = out.state.last_flight_switch
              /\ last_update' = out.state.last_update
              /\ consecutive_errors' = out.state.consecutive_errors
              /\ last_error_time' = out.state.last_error_time
              /\ access_token' = out.state.access_token
              /\ token_expiry' = out.state.token_expiry
              /\ cycle' = out.did
    /\ sleep_time' = update_interval
    /\ lpc' = "sleep_check"
    /\ after_stop' = noted(FALSE, FALSE)
    /\ UNCHANGED <<now, configVars, restVars, windowVars, renderVars, stop_event,
                   polling_active, ppc, poll_time, new_live_flights, lock,
                   sessionVars, historyVars>>

RaiseEndsLoopMutant ==
    /\ lpc = "fetch"
    /\ cycle' = Cycle("raised", TRUE, FALSE, FALSE, FALSE, FALSE)
    /\ lpc' = "ended"
    /\ after_stop' = noted(FALSE, FALSE)
    /\ UNCHANGED <<now, configVars, restVars, windowVars, authVars, renderVars,
                   sleep_time, stop_event, polling_active, bridgeVars,
                   pollerVars, lock, sessionVars, historyVars>>

\* lines 203-210: the poll cycle raises, the loop logs the exception
FetchRaised ==
    /\ lpc = "fetch"
    /\ cycle' = Cycle("raised", TRUE, FALSE, FALSE, FALSE, FALSE)
    /\ sleep_time' = update_interval
    /\ lpc' = "sleep_check"
    /\ after_stop' = noted(FALSE, FALSE)
    /\ UNCHANGED <<now, configVars, restVars, windowVars, authVars, renderVars,
                   stop_event, polling_active, bridgeVars, pollerVars, lock,
                   sessionVars, historyVars>>

SleepsThroughMutant ==
    /\ lpc = "sleep_check"
    /\ lpc' = IF sleep_time > 0 THEN "sleeping" ELSE "check"
    /\ after_stop' = noted(FALSE, FALSE)
    /\ UNCHANGED <<now, configVars, restVars, windowVars, authVars, renderVars,
                   sleep_time, stop_event, polling_active, cycle,
                   bridgeVars, pollerVars, lock, sessionVars, historyVars>>

\* line 211: one more sleep increment, or back to line 202
SleepCheck ==
    /\ lpc = "sleep_check"
    /\ lpc' = IF sleep_time > 0 /\ ~stop_event THEN "sleeping" ELSE "check"
    /\ after_stop' = noted(FALSE, FALSE)
    /\ UNCHANGED <<now, configVars, restVars, windowVars, authVars, renderVars,
                   sleep_time, stop_event, polling_active, cycle,
                   bridgeVars, pollerVars, lock, sessionVars, historyVars>>

\* lines 212-213: time.sleep(min(1.0, sleep_time)) returns
SleepReturned ==
    /\ lpc = "sleeping"
    /\ now < MaxLoops * update_interval
    /\ now' = now + (IF sleep_time < 1 THEN sleep_time ELSE 1)
    /\ sleep_time' = sleep_time - 1
    /\ lpc' = "sleep_check"
    /\ after_stop' = noted(FALSE, TRUE)
    /\ UNCHANGED <<configVars, restVars, windowVars, authVars, renderVars, stop_event,
                   polling_active, cycle, bridgeVars, pollerVars, lock,
                   sessionVars, historyVars>>

FetchHere == FetchReturned({3600}, OneNear)

NextLoop ==
    \/ StartBackgroundPolling
    \/ StopBackgroundPolling
    \/ Joined
    \/ LoopCheck
    \/ FetchHere
    \/ FetchRaised
    \/ SleepCheck
    \/ SleepReturned

SpecLoop == InitBridge /\ [][NextLoop]_vars

\* ---------------------------------------------------------------------
\* One poll cycle over every batch of state vectors: what the loop of lines
\* 661-724 makes of an answer of the positions endpoint.
radius_km == 2           \* self.radius_km (config), in km

\* Positions are offsets east and north of home in whole km; distances are
\* rounded up to whole km.
RECURSIVE ceil_sqrt(_, _)
ceil_sqrt(x, n) == IF n * n >= x THEN n ELSE ceil_sqrt(x, n + 1)

\* _calculate_distance, lines 293-300
calculate_distance(dx, dy) == ceil_sqrt(dx * dx + dy * dy, 0)

\* _calculate_bounding_box, lines 272-291, and the query of lines 642-644:
\* the endpoint answers with the aircraft inside the box
in_bounding_box(dx, dy) ==
    /\ dx \in (0 - radius_km)..radius_km
    /\ dy \in (0 - radius_km)..radius_km

\* Offsets tried: due east of home up to one km past the radius, and the
\* north-east corner of the box.
Offsets ==
    {o \in {<<d, 0>> : d \in 1..(radius_km + 1)} \cup {<<radius_km, radius_km>>} :
        in_bounding_box(o[1], o[2])}

\* A state vector with fewer columns than lines 667-678 read
ShortVector(h) == [icao24 |-> h, columns |-> 8]

is_short(v) == "columns" \in DOMAIN v

\* lines 661-721: reading a column a vector does not have raises IndexError
\* inside the loop; vectors after the break of line 720 are not read
RECURSIVE read_raises(_, _, _)
read_raises(states, i, kept) ==
    IF i > Len(states) THEN FALSE
    ELSE IF is_short(states[i]) THEN TRUE
    ELSE IF skipped(states[i]) THEN read_raises(states, i + 1, kept)
    ELSE IF kept + 1 >= max_flights THEN FALSE
    ELSE read_raises(states, i + 1, kept + 1)

\* lines 650-773: what a 200 answer with these state vectors is to the
\* cycle; the exception leaves the try block at line 770
positions_answer(states) ==
    IF read_raises(states, 1, 0) THEN [status |-> Raised, states |-> <<>>]
    ELSE [status |-> 200, states |-> states]

BatchHexes == Codes

\* The vectors one aircraft can be reported with: in the air at each offset,
\* and one vector for each way to differ from that.
Variants(h) ==
    {Vector(h, "CS", TRUE, min_altitude_m + 1, FALSE,
            calculate_distance(o[1], o[2])) : o \in Offsets}
    \cup {Vector(h, "", TRUE, min_altitude_m + 1, FALSE, 1),
          Vector(h, "CS", FALSE, min_altitude_m + 1, FALSE, 0),
          Vector(h, "CS", TRUE, 0, TRUE, 1),
          Vector(h, "CS", TRUE, min_altitude_m - 1, FALSE, 1),
          Vector(h, "CS", TRUE, 0, FALSE, 1),
          Vector(h, "CS", TRUE, NoAltitude, FALSE, 1),
          ShortVector(h)}

AllVariants == UNION {Variants(h) : h \in BatchHexes}

\* Batches of up to three vectors, no aircraft twice.
Batches ==
    Responses(AllVariants)
    \cup {<<p[1], p[2], p[3]>> :
            p \in {q \in AllVariants \X AllVariants \X AllVariants :
                     /\ q[1].icao24 # q[2].icao24
                     /\ q[1].icao24 # q[3].icao24
                     /\ q[2].icao24 # q[3].icao24}}

\* The first poll cycle after construction, with a token granted.
PollBatch ==
    /\ cycle = NoCycle
    /\ \E batch \in Batches :
          LET ta == [status |-> 200, expires_in |-> 3600]
              out == fetch_flights_internal(PollerState, now, TRUE, ta,
                                            positions_answer(batch))
          IN  /\ live_flights' = out.state.live_flights
              /\ current_flight' = out.state.current_flight
              /\ current_flight_index' = out.state.current_flight_index
              /\ last_flight_switch' = out.state.last_flight_switch
              /\ last_update' = out.state.last_update
              /\ consecutive_errors' = out.state.consecutive_errors
              /\ last_error_time' = out.state.last_error_time
              /\ access_token' = out.state.access_token
              /\ token_expiry' = out.state.token_expiry
              /\ cycle' = out.did
              /\ polled_states' = batch
    /\ UNCHANGED <<now, configVars, lookupVars, threadVars, inferVars,
                   restartVars,
                   windowVars, ppc,
                   poll_time, new_live_flights, lock, sessionVars,
                   historyVars, renderVars, loopVars, after_stop>>

NextBatch == PollBatch

SpecBatch == InitBridge /\ [][NextBatch]_vars

\* ---------------------------------------------------------------------
\* Aircraft identification: the local database with its lookup memo
\* (src/src/aircraft_db.py), the hexdb.io fallback with its cache in memory
\* and on disk (flight_manager.py lines 443-551; aircraft_lookup.py lines
\* 113-253 has the same steps on module globals), and the start-up that
\* builds them.  One clock unit is one second.
fallback_rate_limit == 1     \* self._fallback_rate_limit, seconds
cache_max_size == 2          \* AircraftDatabase._cache_max_size
prune_count == 1             \* the oldest entries a prune removes

\* icao24 codes with a row in the aircraft table
InDatabase == {"a1"}

\* Answers of hexdb.io: an aircraft, a body marked not-found, status 404,
\* another status, a timeout or another exception.
HexdbAnswers ==
    {[status |-> 200, body |-> "aircraft"],
     [status |-> 200, body |-> "not_found"],
     [status |-> 404, body |-> ""],
     [status |-> 500, body |-> ""],
     [status |-> Raised, body |-> ""]}

\* AircraftDatabase.lookup, aircraft_db.py lines 92-164, with the memo as
\* the sequence of its keys in insertion order: info is the row or None.
db_lookup(memo, h) ==
    LET info == IF h \in InDatabase THEN "row" ELSE "None"
        kept == Append(memo, h)
    IN  IF \E i \in 1..Len(memo) : memo[i] = h
        THEN [memo |-> memo, info |-> info]
        ELSE IF Len(kept) > cache_max_size
        THEN [memo |-> SubSeq(kept, prune_count + 1, Len(kept)), info |-> info]
        ELSE [memo |-> kept, info |-> info]

NoCacheHitMutant(cache, h) == FALSE

\* line 469
cache_hit(cache, h) == cache[h] # Absent

NeverLimitedMutant(last, t) == FALSE

\* lines 476-478
rate_limited(last, t) == t - last < fallback_rate_limit

ErrorsCachedMutant(answer) ==
    IF answer.status = 200 /\ answer.body = "aircraft" THEN Found ELSE NotFound

\* lines 485-549: the entry an answer is cached as, Absent for none
entry_for(answer) ==
    IF answer.status = 200
    THEN IF answer.body = "not_found" THEN NotFound ELSE Found
    ELSE IF answer.status = 404 THEN NotFound
    ELSE Absent

\* _fallback_lookup, lines 463-551, at time t with hexdb.io answering
\* answer: the cache, the file and the request stamp after the call, the
\* value returned and whether the request of line 483 was issued.
fallback_lookup(cache, file, last, h, t, answer) ==
    IF cache_hit(cache, h)
    THEN [cache |-> cache, file |-> file, last |-> last,
          result |-> IF cache[h] = NotFound THEN Empty ELSE cache[h],
          requested |-> FALSE]
    ELSE IF rate_limited(last, t)
    THEN [cache |-> cache, file |-> file, last |-> last, result |-> Empty,
          requested |-> FALSE]
    ELSE LET e == entry_for(answer)
             written == [cache EXCEPT ![h] = e]
         IN  IF e = Absent
             THEN [cache |-> cache, file |-> file, last |-> t,
                   result |-> Empty, requested |-> TRUE]
             ELSE [cache |-> written, file |-> written, last |-> t,
                   result |-> IF e = Found THEN Found ELSE Empty,
                   requested |-> TRUE]

\* _lookup_aircraft_info, lines 390-440: the database first, then the
\* fallback
LookupAircraftInfo ==
    \E h \in Codes, answer \in HexdbAnswers :
        LET d == IF aircraft_db = "ready" THEN db_lookup(db_cache, h)
                 ELSE [memo |-> db_cache, info |-> "None"]
            f == fallback_lookup(fallback_cache, cache_file,
                                 last_fallback_request, h, now, answer)
        IN  /\ db_cache' = d.memo
            /\ IF d.info # "None"
               THEN /\ lookup' = [icao24 |-> h, at |-> now,
                                  result |-> "database", requested |-> FALSE,
                                  answer |-> NoAnswer]
                    /\ UNCHANGED <<fallback_cache, cache_file,
                                   last_fallback_request>>
               ELSE /\ fallback_cache' = f.cache
                    /\ cache_file' = f.file
                    /\ last_fallback_request' = f.last
                    /\ lookup' = [icao24 |-> h, at |-> now,
                                  result |-> f.result,
                                  requested |-> f.requested,
                                  answer |-> IF f.requested THEN answer
                                             ELSE NoAnswer]
    /\ UNCHANGED <<now, configVars, polled_states, threadVars, inferVars,
                   restartVars, aircraft_db,
                   otherVars,
                   bridgeVars, pollerVars, lock, sessionVars, historyVars>>

\* How _init_aircraft_database can go: the database is loaded, the module
\* is there but no ready database is found, the module cannot be imported.
StartUps == {"ready", "missing", "unavailable"}

\* lines 126-135 and 359-388: the fallback cache after start-up.  The file
\* is read only on the path that finds no ready database.
started_cache(db, file) == IF db = "missing" THEN file ELSE NoEntries

\* The process restarts: a new FlightLiveManager is constructed; the cache
\* file stays as it is.
Restart ==
    /\ \E db \in StartUps :
          /\ aircraft_db' = db
          /\ fallback_cache' = started_cache(db, cache_file)
    /\ db_cache' = <<>>
    /\ last_fallback_request' = 0
    /\ lookup' = NoLookup
    /\ UNCHANGED <<now, configVars, polled_states, threadVars, inferVars,
                   restartVars, cache_file,
                   otherVars,
                   bridgeVars, pollerVars, lock, sessionVars, historyVars>>

\* The clock at construction is far more than one rate limit after the 0
\* line 132 stores.
InitLookup ==
    /\ now = fallback_rate_limit
    /\ Fields
    /\ Defaults
    /\ cooldown_duration = MaxCooldown
    /\ max_interruption_time = MaxInterruption
    /\ live_flights = <<>>
    /\ current_flight = NoFlight

NextLookup ==
    \/ Tick
    \/ LookupAircraftInfo
    \/ Restart

SpecLookup == InitLookup /\ [][NextLookup]_vars

\* ---------------------------------------------------------------------
\* Two threads in _fallback_lookup of the shared module
\* (src/src/aircraft_lookup.py lines 175-253), whose cache, request stamp
\* and cache file are module globals used without a lock.  The cache has
\* been loaded; the local databases have no row for the codes looked up.
at(th, pc) == calls[th].pc = pc

moved(th, pc) == [calls EXCEPT ![th].pc = pc]

others == <<now, configVars, polled_states, inferVars, restartVars,
            aircraft_db, db_cache,
            lookup,
            otherVars, bridgeVars, pollerVars, lock, sessionVars, historyVars>>

\* lines 189-202: the cache check and the rate-limit check
CallLookup(th) ==
    /\ at(th, "idle")
    /\ \E h \in Hexes :
          IF cache_hit(fallback_cache, h)
             \/ rate_limited(last_fallback_request, now)
          THEN UNCHANGED calls
          ELSE calls' = [calls EXCEPT ![th] =
                           [pc |-> "stamp", icao24 |-> h, current_time |-> now]]
    /\ UNCHANGED <<fallback_cache, cache_file, last_fallback_request,
                   request_times, others>>

\* lines 205-207: the stamp, then the request goes out
IssueRequest(th) ==
    /\ at(th, "stamp")
    /\ last_fallback_request' = calls[th].current_time
    /\ request_times' =
          IF request_times = <<>> THEN <<now>>
          ELSE <<request_times[Len(request_times)], now>>
    /\ calls' = moved(th, "request")
    /\ UNCHANGED <<fallback_cache, cache_file, others>>

\* lines 209-253: the answer; a result or a not-found marker is put into
\* the cache
HexdbAnswer(th) ==
    /\ at(th, "request")
    /\ \E answer \in HexdbAnswers :
          LET e == entry_for(answer)
          IN  IF e = Absent
              THEN /\ calls' = [calls EXCEPT ![th] = NoCall]
                   /\ UNCHANGED fallback_cache
              ELSE /\ fallback_cache' =
                         [fallback_cache EXCEPT ![calls[th].icao24] = e]
                   /\ calls' = moved(th, "save")
    /\ UNCHANGED <<cache_file, last_fallback_request, request_times, others>>

\* _save_fallback_cache, line 136: open(path, 'w') truncates the file
SaveOpen(th) ==
    /\ at(th, "save")
    /\ cache_file' = NoEntries
    /\ calls' = moved(th, "dump")
    /\ UNCHANGED <<fallback_cache, last_fallback_request, request_times,
                   others>>

\* _save_fallback_cache, line 137: json.dump of the cache as it is now.
\* While another thread has the file open for writing too, what the file
\* holds afterwards is either the dump or nothing that can be loaded.
SaveDump(th) ==
    /\ at(th, "dump")
    /\ IF \E o \in Threads \ {th} : at(o, "dump")
       THEN cache_file' \in {fallback_cache, NoEntries}
       ELSE cache_file' = fallback_cache
    /\ calls' = [calls EXCEPT ![th] = NoCall]
    /\ UNCHANGED <<fallback_cache, last_fallback_request, request_times,
                   others>>

NextThreads ==
    \/ Tick
    \/ \E th \in Threads : CallLookup(th)
    \/ \E th \in Threads : IssueRequest(th)
    \/ \E th \in Threads : HexdbAnswer(th)
    \/ \E th \in Threads : SaveOpen(th)
    \/ \E th \in Threads : SaveDump(th)

SpecThreads == InitLookup /\ [][NextThreads]_vars

\* ---------------------------------------------------------------------
\* Aircraft type inference: the FAA registry (src/src/faa_database.py), the
\* shared infer_aircraft_type (src/src/aircraft_lookup.py lines 310-403) and
\* FlightLiveManager._infer_aircraft_type (flight_manager.py lines 551-593).
\* Strings are the source's strings.
startswith(s, p) == Len(s) >= Len(p) /\ SubSeq(s, 1, Len(p)) = p

\* p in s
contains(s, p) ==
    \E i \in 1..(Len(s) - Len(p) + 1) : SubSeq(s, i, i + Len(p) - 1) = p

RECURSIVE lstrip(_, _)
lstrip(s, c) ==
    IF Len(s) > 0 /\ SubSeq(s, 1, 1) = c
    THEN lstrip(SubSeq(s, 2, Len(s)), c)
    ELSE s

RECURSIVE rstrip(_, _)
rstrip(s, c) ==
    IF Len(s) > 0 /\ SubSeq(s, Len(s), Len(s)) = c
    THEN rstrip(SubSeq(s, 1, Len(s) - 1), c)
    ELSE s

\* str.strip() for the blanks OpenSky pads callsigns with
strip(s) == rstrip(lstrip(s, " "), " ")

\* str.upper() for the lower-case letters of a hex code
upper_char(c) ==
    CASE c = "a" -> "A" [] c = "b" -> "B" [] c = "c" -> "C"
      [] c = "d" -> "D" [] c = "e" -> "E" [] c = "f" -> "F"
      [] OTHER -> c

RECURSIVE upper(_)
upper(s) ==
    IF Len(s) = 0 THEN ""
    ELSE upper_char(SubSeq(s, 1, 1)) \o upper(SubSeq(s, 2, Len(s)))

\* Python truth of an optional number: neither None nor 0
truthy(n) == n # NoValue /\ n # 0

\* faa_database.py line 74
ENGINE_TURBINE_CODES == {"2", "3", "4", "5", "6"}

\* faa_database.py lines 57-69
TYPE_MAPPING(type_aircraft) ==
    CASE type_aircraft = "1" -> "GLIDER"
      [] type_aircraft \in {"2", "3"} -> "BALLOON"
      [] type_aircraft \in {"4", "7", "H"} -> "GA"
      [] type_aircraft = "5" -> "JET"
      [] type_aircraft \in {"6", "9"} -> "HELO"
      [] type_aircraft = "8" -> "CHUTE"
      [] OTHER -> "UNK"

\* FAADatabase._classify_type, faa_database.py lines 305-345
classify_type(type_aircraft, type_engine) ==
    IF type_aircraft \in {"6", "9"} THEN "HELO"
    ELSE IF type_aircraft = "4" THEN "GA"
    ELSE IF type_aircraft = "5"
    THEN IF type_engine \in ENGINE_TURBINE_CODES THEN "JET" ELSE "TWIN"
    ELSE IF type_aircraft = "1" THEN "GLIDER"
    ELSE IF type_aircraft \in {"2", "3"} THEN "BALLOON"
    ELSE IF type_aircraft = "8" THEN "CHUTE"
    ELSE TYPE_MAPPING(type_aircraft)

\* faa_database.py lines 381-395
other_cargo_names ==
    {"KALITTA", "CARGOLUX", "POLAR AIR", "SOUTHERN AIR", "WESTERN GLOBAL",
     "WORLD AIRWAYS", "NIPPON CARGO", "CATHAY CARGO", "AIR TRANSPORT INT",
     "AMERIJET", "MARTINAIRE", "EMPIRE AIRLINES", "MOUNTAIN AIR CARGO"}

\* FAADatabase._is_cargo_carrier, faa_database.py lines 347-401
is_cargo_carrier(registrant) ==
    IF registrant = "" THEN ""
    ELSE IF contains(registrant, "UNITED PARCEL") \/ contains(registrant, "UPS")
    THEN "UPS"
    ELSE IF contains(registrant, "FEDERAL EXPRESS")
            \/ contains(registrant, "FEDEX")
    THEN "FDX"
    ELSE IF contains(registrant, "AMAZON") \/ contains(registrant, "PRIME AIR")
    THEN "AMAZON"
    ELSE IF contains(registrant, "DHL") THEN "DHL"
    ELSE IF contains(registrant, "ATLAS AIR") THEN "AMAZON"
    ELSE IF contains(registrant, "ABX AIR") THEN "AMAZON"
    ELSE IF \E keyword \in other_cargo_names : contains(registrant, keyword)
    THEN "CARGO"
    ELSE ""

\* A row of MASTER.txt, by the columns _parse_master reads (lines 236-243)
Row(n_number, registrant, type_aircraft, type_engine, status_code, hex) ==
    [n_number |-> n_number, registrant |-> registrant,
     type_aircraft |-> type_aircraft, type_engine |-> type_engine,
     status_code |-> status_code, mode_s_hex |-> hex]

\* faa_database.py lines 246-254: the row is not stored
row_skipped(row) ==
    \/ /\ row.status_code # ""
       /\ row.status_code \notin {"V", "A", "M", "T", "N", "R", "S"}
    \/ strip(row.n_number) = ""
    \/ strip(row.n_number) = "N-NUMBER"

CargoAnyTypeMutant(row) ==
    LET base == classify_type(row.type_aircraft, row.type_engine)
        cargo_type == is_cargo_carrier(strip(row.registrant))
    IN  [type |-> IF cargo_type # "" THEN cargo_type ELSE base,
         type_aircraft |-> row.type_aircraft,
         type_engine |-> row.type_engine,
         registrant |-> strip(row.registrant)]

\* faa_database.py lines 259-278: the entry built for a row
info_of(row) ==
    LET base == classify_type(row.type_aircraft, row.type_engine)
        cargo_type == is_cargo_carrier(strip(row.registrant))
    IN  [type |-> IF cargo_type # "" /\ base \in {"JET", "TWIN"}
                  THEN cargo_type ELSE base,
         type_aircraft |-> row.type_aircraft,
         type_engine |-> row.type_engine,
         registrant |-> strip(row.registrant)]

put(dict, key, value) == (key :> value) @@ dict

\* One row in the loop of _parse_master, faa_database.py lines 232-290
parse_row(db, row) ==
    IF row_skipped(row) THEN db
    ELSE LET hex == lstrip(upper(strip(row.mode_s_hex)), "0")
             stored == put(db.by_nnumber, strip(row.n_number), info_of(row))
         IN  [db EXCEPT !.by_nnumber = stored,
                        !.by_icao24 = IF hex = "" THEN @
                                      ELSE put(@, hex, info_of(row))]

NNumberFirstMutant(db, icao24, callsign) ==
    IF ~db.loaded THEN None
    ELSE IF callsign # "" /\ startswith(strip(callsign), "N")
            /\ SubSeq(strip(callsign), 2, Len(strip(callsign)))
                 \in DOMAIN db.by_nnumber
    THEN db.by_nnumber[SubSeq(strip(callsign), 2, Len(strip(callsign)))].type
    ELSE IF icao24 \notin {None, ""}
            /\ lstrip(upper(icao24), "0") \in DOMAIN db.by_icao24
    THEN db.by_icao24[lstrip(upper(icao24), "0")].type
    ELSE None

\* FAADatabase.get_aircraft_type over lookup, faa_database.py lines
\* 403-442: the type of the entry found, None for none
get_aircraft_type(db, icao24, callsign) ==
    IF ~db.loaded THEN None
    ELSE IF icao24 \notin {None, ""}
            /\ lstrip(upper(icao24), "0") \in DOMAIN db.by_icao24
    THEN db.by_icao24[lstrip(upper(icao24), "0")].type
    ELSE IF callsign # "" /\ startswith(strip(callsign), "N")
            /\ SubSeq(strip(callsign), 2, Len(strip(callsign)))
                 \in DOMAIN db.by_nnumber
    THEN db.by_nnumber[SubSeq(strip(callsign), 2, Len(strip(callsign)))].type
    ELSE None

\* aircraft_lookup.py lines 338-343
military_patterns ==
    {"REACH", "TETON", "EVAC", "RESCUE", "ARMY", "NAVY", "GUARD", "DUKE",
     "HAWK", "VIPER", "RCH", "CNV", "PAT", "IRON", "STEEL", "BLADE", "SABER",
     "TOPCAT", "BOXER", "KARMA", "RAID", "SKULL", "BONE", "DEATH", "DUSTOFF"}

heli_patterns ==
    {"LIFE", "MEDEVAC", "HELI", "COPTER", "AIR1", "MERCY", "DUSTOFF"}

\* aircraft_lookup.py lines 383-384
other_cargo ==
    {"KFS", "CLX", "MPH", "PAC", "SQC", "BOX", "GEC", "ICL", "NCR", "AHK",
     "CAL", "CKS", "NCA", "POL"}

\* aircraft_lookup.py lines 389-391
airlines ==
    {"AAL", "UAL", "DAL", "SWA", "JBU", "ASA", "FFT", "NKS", "SKW", "ENY",
     "RPA", "EDV", "EJA", "LXJ", "XOJ", "TVS", "XAJ", "LEA", "WWI", "VIR",
     "BAW", "AFR", "DLH", "KLM"}

starts_with_any(s, prefixes) == \E p \in prefixes : startswith(s, p)

\* infer_aircraft_type, aircraft_lookup.py lines 310-403, step 3: the
\* heuristics on the stripped upper-case callsign
heuristic_type(callsign, altitude_ft) ==
    IF \E p \in heli_patterns : contains(callsign, p) THEN "HELO"
    ELSE IF startswith(callsign, "UPS") THEN "UPS"
    ELSE IF starts_with_any(callsign, {"FDX", "FXE"}) THEN "FDX"
    ELSE IF starts_with_any(callsign, {"GTI", "ATN", "ABX"}) THEN "AMAZON"
    ELSE IF starts_with_any(callsign, {"DHL", "BCS", "DAE"}) THEN "DHL"
    ELSE IF starts_with_any(callsign, other_cargo) THEN "CARGO"
    ELSE IF starts_with_any(callsign, airlines) THEN "JET"
    ELSE IF truthy(altitude_ft) /\ altitude_ft > 25000 THEN "JET"
    ELSE IF startswith(callsign, "N") /\ Len(callsign) <= 6 THEN "GA"
    ELSE "UNK"

\* infer_aircraft_type, aircraft_lookup.py lines 336-364: steps 1 and 2
infer_aircraft_type(given, altitude_ft, speed_knots, icao24, db) ==
    LET callsign == strip(upper(given))
        faa_type == get_aircraft_type(db, icao24, callsign)
    IN  IF starts_with_any(callsign, military_patterns)
        THEN IF \E p \in heli_patterns : contains(callsign, p) THEN "MIL_HELO"
             ELSE IF /\ truthy(altitude_ft) /\ truthy(speed_knots)
                     /\ altitude_ft < 5000 /\ speed_knots < 180
             THEN "MIL_HELO"
             ELSE "MIL"
        ELSE IF db.loaded /\ faa_type \notin {None, ""} THEN faa_type
        ELSE heuristic_type(callsign, altitude_ft)

\* flight_manager.py lines 559-562 and 567, 576-578
manager_military_patterns == military_patterns \ {"DUSTOFF"}
manager_heli_patterns == heli_patterns \ {"DUSTOFF"}
manager_airlines ==
    {"AAL", "UAL", "DAL", "SWA", "JBU", "ASA", "FFT", "NKS", "SKW", "ENY",
     "RPA", "EDV", "FDX", "UPS", "GTI", "ABX", "EJA", "LXJ", "XOJ", "TVS",
     "XAJ", "LEA", "WWI"}

\* FlightLiveManager._infer_aircraft_type, flight_manager.py lines 551-593
manager_infer_aircraft_type(given, altitude_ft, speed_knots) ==
    LET callsign == strip(upper(given))
    IN  IF starts_with_any(callsign, manager_military_patterns) THEN "MIL"
        ELSE IF \E p \in manager_heli_patterns : contains(callsign, p)
        THEN "HELO"
        ELSE IF /\ truthy(altitude_ft) /\ truthy(speed_knots)
                /\ altitude_ft < 3000 /\ speed_knots < 120
        THEN "HELO"
        ELSE IF starts_with_any(callsign, manager_airlines) THEN "JET"
        ELSE IF truthy(altitude_ft) /\ altitude_ft > 25000 THEN "JET"
        ELSE IF startswith(callsign, "N") /\ Len(callsign) <= 6 THEN "GA"
        ELSE "UNK"

\* MASTER.txt is parsed row by row and the registry is ready (lines
\* 132-135); a row met again replaces its entries.
ParseMaster(rows) ==
    /\ \E row \in rows :
          faa_db' = [parse_row(faa_db, row) EXCEPT !.loaded = TRUE]
    /\ UNCHANGED <<now, configVars, polled_states, lookupVars, threadVars,
                   restartVars, inference, otherVars, bridgeVars, pollerVars, lock,
                   sessionVars, historyVars>>

\* One aircraft is classified by both functions; a run classifies once.
InferAircraftType(callsigns, altitudes, speeds, hexes) ==
    /\ inference = NoInference
    /\ \E callsign \in callsigns, altitude_ft \in altitudes,
          speed_knots \in speeds, icao24 \in hexes :
          inference' =
             [callsign |-> callsign, altitude_ft |-> altitude_ft,
              speed_knots |-> speed_knots, icao24 |-> icao24,
              type |-> infer_aircraft_type(callsign, altitude_ft,
                                           speed_knots, icao24, faa_db),
              manager_type |-> manager_infer_aircraft_type(
                                  callsign, altitude_ft, speed_knots)]
    /\ UNCHANGED <<now, configVars, polled_states, lookupVars, threadVars,
                   restartVars, faa_db, otherVars, bridgeVars, pollerVars, lock,
                   sessionVars, historyVars>>

\* Rows of the registry in these runs: a FedEx jet and a private helicopter
\* with Mode S codes, and a piston twin known by its N-number only.
FewRows ==
    {Row("101FE", "FEDERAL EXPRESS CORP", "5", "5", "V", "0000A1"),
     Row("202H", "SMITH JOHN", "6", "3", "V", "B2"),
     Row("303T", "BARON LLC", "5", "1", "V", "")}

Callsigns ==
    {"UAL12", "N303T", "N202H", "N999", "LIFE5", "RCH40", "DUSTOFF7",
     "PATHELI", "UPS9", "FDX3  ", "DHLIFE", "ABX1", "XYZ"}

Altitudes == {NoValue, 0, 3000, 30000}
Speeds == {NoValue, 0, 100, 400}
HexArguments == {None, "a1", "b2", "c3"}

Classify == InferAircraftType(Callsigns, Altitudes, Speeds, HexArguments)
LoadFew == ParseMaster(FewRows)

NextInfer ==
    \/ LoadFew
    \/ Classify

SpecInfer == InitBridge /\ [][NextInfer]_vars

\* ---------------------------------------------------------------------
\* The registry built from every kind of row: one N-number, registered
\* with or without a Mode S code to a cargo carrier or to somebody else,
\* as a single, a multi-engine aircraft or a rotorcraft, valid or
\* deregistered.
Registrants ==
    {"FEDERAL EXPRESS CORP", "UPSTATE AIR LLC", "DHL NETWORK OPS",
     "KALITTA CHARTERS", "SMITH JOHN", ""}

AllRows ==
    {Row("101FE", r, ta, te, sc, hex) :
        r \in Registrants, ta \in {"4", "5", "6", "O"}, te \in {"1", "5"},
        sc \in {"V", "D"}, hex \in {"", "0000A1"}}

LoadAny == ParseMaster(AllRows)

NextRegistry == LoadAny

SpecRegistry == InitBridge /\ [][NextRegistry]_vars

\* ---------------------------------------------------------------------
\* Polling started and stopped again and again: every start creates a new
\* poll thread, every thread runs _background_poll_loop on the shared
\* fields.  A poll cycle is followed in two steps, up to its first request
\* and from the answers on.  The clock is not followed: all cycles of a run
\* read the same time.
\* Variables no step of these runs writes.
apart ==
    <<now, configVars, lock, sessionVars, historyVars, windowVars,
      current_flights, lpc, sleep_time, traceVars, polled_states, lookupVars,
      threadVars, inferVars, ppc, poll_time, new_live_flights>>

\* thread i is inside _background_poll_loop
alive(i) == poll_threads[i].pc \notin {"not_started", "ended"}

\* thread i moves to position pc with sleep_time st
at_position(i, pc, st) ==
    poll_threads' = [poll_threads EXCEPT ![i] = [pc |-> pc, sleep_time |-> st]]

\* the fields of PollerState become s
stored(s) ==
    /\ live_flights' = s.live_flights
    /\ current_flight' = s.current_flight
    /\ current_flight_index' = s.current_flight_index
    /\ last_flight_switch' = s.last_flight_switch
    /\ last_update' = s.last_update
    /\ consecutive_errors' = s.consecutive_errors
    /\ last_error_time' = s.last_error_time
    /\ access_token' = s.access_token
    /\ token_expiry' = s.token_expiry

\* start_background_polling, lines 153-174: a new thread object is created
\* and started
StartPolling ==
    /\ enabled
    /\ ~polling_active
    /\ rpc = "idle"
    /\ \E i \in PollThreads :
          /\ ~alive(i)
          /\ \A j \in PollThreads : ~alive(j) => i <= j
          /\ at_position(i, "check", 0)
          /\ poll_thread' = i
    /\ stop_event' = FALSE
    /\ polling_active' = TRUE
    /\ UNCHANGED <<apart, bridgeVars, last_update, consecutive_errors,
                   authVars, rpc>>

\* stop_background_polling, lines 176-188: set the event, wait for the
\* thread
StopPolling ==
    /\ polling_active
    /\ rpc = "idle"
    /\ stop_event' = TRUE
    /\ rpc' = "join"
    /\ UNCHANGED <<apart, bridgeVars, last_update, consecutive_errors,
                   authVars, restartVars, polling_active>>

\* lines 187-193: the thread has ended and the join returns
JoinReturned ==
    /\ rpc = "join"
    /\ ~alive(poll_thread)
    /\ polling_active' = FALSE
    /\ rpc' = "idle"
    /\ UNCHANGED <<apart, bridgeVars, last_update, consecutive_errors,
                   authVars, restartVars, stop_event>>

\* lines 188-193: the 5 s of the join run out on a request in flight (the
\* requests of lines 254 and 650 wait up to 10 s and 15 s)
JoinTimedOut ==
    /\ rpc = "join"
    /\ poll_threads[poll_thread].pc = "request"
    /\ polling_active' = FALSE
    /\ rpc' = "idle"
    /\ UNCHANGED <<apart, bridgeVars, last_update, consecutive_errors,
                   authVars, restartVars, stop_event>>

\* line 202: the loop goes on with a poll cycle, or ends
LoopTest(i) ==
    /\ poll_threads[i].pc = "check"
    /\ at_position(i, IF stop_event THEN "ended" ELSE "fetch", 0)
    /\ UNCHANGED <<apart, bridgeVars, last_update, consecutive_errors,
                   authVars, poll_thread, rpc, stop_event, polling_active>>

\* lines 602-635: the cycle up to its first request; it returns early when
\* tracking is disabled, outside the polling window and in backoff
FetchBegin(i) ==
    /\ poll_threads[i].pc = "fetch"
    /\ \E within \in WindowChecks :
          IF ~enabled \/ ~within
          THEN /\ stored(cleared(PollerState))
               /\ at_position(i, "sleep_check", update_interval)
          ELSE IF in_backoff(PollerState, now)
          THEN /\ stored(PollerState)
               /\ at_position(i, "sleep_check", update_interval)
          ELSE /\ stored(after_backoff(PollerState))
               /\ at_position(i, "request", 0)
    /\ UNCHANGED <<apart, poll_thread, rpc, stop_event, polling_active>>

\* lines 632-773: the answers arrive, the cycle counts an error or
\* publishes, and the loop sets out to sleep
FetchEnd(i, lifetimes, vectors) ==
    /\ poll_threads[i].pc = "request"
    /\ \E ta \in TokenAnswers(lifetimes), pa \in PositionsAnswers(vectors) :
          LET s == PollerState
              r == refresh_oauth_token(s.access_token, s.token_expiry, now, ta)
              s2 == [s EXCEPT !.access_token = r.token,
                              !.token_expiry = r.expiry]
          IN  stored(IF ~r.ok THEN count_error(s2, now)
                     ELSE request_positions(s2, now, pa))
    /\ at_position(i, "sleep_check", update_interval)
    /\ UNCHANGED <<apart, poll_thread, rpc, stop_event, polling_active>>

\* line 211: one more sleep increment, or back to line 202
SleepTest(i) ==
    /\ poll_threads[i].pc = "sleep_check"
    /\ at_position(i, IF poll_threads[i].sleep_time > 0 /\ ~stop_event
                      THEN "sleeping" ELSE "check",
                   poll_threads[i].sleep_time)
    /\ UNCHANGED <<apart, bridgeVars, last_update, consecutive_errors,
                   authVars, poll_thread, rpc, stop_event, polling_active>>

\* lines 212-213: time.sleep(min(1.0, sleep_time)) returns
SleepDone(i) ==
    /\ poll_threads[i].pc = "sleeping"
    /\ at_position(i, "sleep_check", poll_threads[i].sleep_time - 1)
    /\ UNCHANGED <<apart, bridgeVars, last_update, consecutive_errors,
                   authVars, poll_thread, rpc, stop_event, polling_active>>

PollThreadStep ==
    \E i \in PollThreads :
        \/ LoopTest(i)
        \/ FetchBegin(i)
        \/ FetchEnd(i, {3600}, OneNear)
        \/ SleepTest(i)
        \/ SleepDone(i)

NextRestart ==
    \/ StartPolling
    \/ StopPolling
    \/ JoinReturned
    \/ JoinTimedOut
    \/ PollThreadStep

SpecRestart == InitBridge /\ [][NextRestart]_vars

\* ---------------------------------------------------------------------
\* The render path step by step against the publishes of the poller, with
\* the clock running: has_live_content(), update() and display() interleave
\* with polls that publish any list, also a shorter or an empty one.
PollAirborne == Fetch(Responses(Airborne({1})))

NextRender ==
    \/ Tick
    \/ PollOutsideWindow
    \/ ClearLock
    \/ ClearList
    \/ ClearCurrent
    \/ PollAirborne
    \/ PublishLock
    \/ PublishList
    \/ PublishCurrent
    \/ RenderLock
    \/ HlcCopy
    \/ HlcSession
    \/ UpdateRotate
    \/ DisplayCopy
    \/ DisplayRender
    \/ DisplayCount

SpecRender == InitBridge /\ [][NextRender]_vars

\* ------------------------------------------------------------ properties
\* A step that is one has_live_content() evaluation.
Evaluated == ev'.seq # ev.seq

\* The aircraft of the published list, and whether one is in cooldown now.
InRange == Present(live_flights)
InCooldown(h) == in_cooldown(cooldown_flights, h, now)

\* C1 - Idle to Active: an evaluation made while no session is active, with
\* a non-empty list and some present aircraft not in cooldown, returns true,
\* makes the session active with start time now and sets the cooldown of
\* every present aircraft to now, those already in cooldown included.
C1_IdleToActive ==
    [][(/\ Evaluated
        /\ ~interruption_active
        /\ Len(live_flights) > 0
        /\ \E h \in InRange : ~InCooldown(h))
       => (/\ ev'.ret
           /\ interruption_active'
           /\ interruption_start_time' = now
           /\ \A h \in InRange : cooldown_flights'[h] = now)]_vars

\* a session was started by a new aircraft while another one present was
\* still in cooldown
C1_Witness ==
    /\ ev.case = "start"
    /\ ev.old
    /\ ev.new
    /\ interruption_active

\* C2 - Session timeout: an evaluation made while a session is active, with
\* a non-empty list and now - start >= max_interruption_time, returns false,
\* ends the session and sets the cooldown of every present aircraft to now,
\* also when an aircraft not yet in cooldown is present.
C2_SessionTimeout ==
    [][(/\ Evaluated
        /\ interruption_active
        /\ Len(live_flights) > 0
        /\ now - interruption_start_time >= max_interruption_time)
       => (/\ ~ev'.ret
           /\ ~interruption_active'
           /\ \A h \in InRange : cooldown_flights'[h] = now)]_vars

\* a session timed out at an evaluation that saw an aircraft for the first
\* time
C2_Witness ==
    /\ ev.case = "timeout"
    /\ ev.new
    /\ ~interruption_active

\* C3 - Bounded session length: with one aircraft continuously present, an
\* evaluation made max_interruption_time or more after the session left
\* Idle does not find the session still running without a false answer in
\* between (a false answer ends the session, so session_origin is unset).
C3_BoundedSession == ~ev.extended

\* C4 - New-arrival timer reset: an evaluation made while a session is
\* active and within its budget, with a non-empty list, keeps the session
\* active and returns true; if some present aircraft is not in cooldown the
\* start time becomes now and every such aircraft gets cooldown now,
\* otherwise the start time is unchanged.
C4_NewArrivalReset ==
    [][(/\ Evaluated
        /\ interruption_active
        /\ Len(live_flights) > 0
        /\ now - interruption_start_time < max_interruption_time)
       => (/\ ev'.ret
           /\ interruption_active'
           /\ IF \E h \in InRange : ~InCooldown(h)
              THEN /\ interruption_start_time' = now
                   /\ \A h \in InRange :
                         ~InCooldown(h) => cooldown_flights'[h] = now
              ELSE interruption_start_time' = interruption_start_time)]_vars

\* a session whose timer was reset is found active max_interruption_time or
\* more after it left Idle
C4_Witness ==
    /\ ev.extended
    /\ interruption_active
    /\ session_origin < interruption_start_time

\* C5 - Session invariant: right after every evaluation, an active session
\* has a start time with now - start < max_interruption_time, and an
\* inactive one has no start time.
C5_SessionInvariant ==
    [][Evaluated
       => IF interruption_active'
          THEN /\ interruption_start_time' # NoTime
               /\ now - interruption_start_time' < max_interruption_time
          ELSE interruption_start_time' = NoTime]_vars

\* a running session passed an evaluation later than its start
C5_Witness ==
    /\ ev.case = "continue"
    /\ interruption_active
    /\ interruption_start_time < now

\* Three consecutive logged evaluations of one aircraft continuously in
\* range, the first one starting a session, spaced less than
\* cooldown_duration apart.
FirstAppearance(e) == ~e.was_active /\ e.active
ThreeCloseEvaluations ==
    /\ Len(log) = 3
    /\ FirstAppearance(log[1])
    /\ \A i \in 1..2 : log[i + 1].at - log[i].at < cooldown_duration

\* C6 as claimed - true exactly once: the second and the third evaluation
\* return false as long as max_interruption_time has not elapsed.
C6_TrueExactlyOnce ==
    ThreeCloseEvaluations
    => \A i \in 2..3 :
          log[i].at - log[1].at < max_interruption_time => ~log[i].ret

\* C6 as amended - a session starts exactly once, at the first appearance;
\* a later evaluation returns true when made less than
\* max_interruption_time after the first and false otherwise.
C6_OneSessionStart ==
    ThreeCloseEvaluations
    => \A i \in 2..3 :
          /\ ~FirstAppearance(log[i])
          /\ log[i].ret <=> log[i].at - log[1].at < max_interruption_time

\* three close evaluations: start, still running, timed out
C6_Witness ==
    /\ ThreeCloseEvaluations
    /\ log[2].ret
    /\ ~log[3].ret

\* C7 - No re-trigger during cooldown: an evaluation made while no session
\* is active and every present aircraft had its cooldown last set no more
\* than cooldown_duration ago returns false and starts no session.
C7_NoRetrigger ==
    [][(/\ Evaluated
        /\ ~interruption_active
        /\ Len(live_flights) > 0
        /\ \A h \in InRange :
              last_set[h] # NoTime /\ now - last_set[h] <= cooldown_duration)
       => (~ev'.ret /\ ~interruption_active')]_vars

\* after a session, an evaluation that saw only aircraft in cooldown
C7_Witness ==
    /\ ev.case = "idle"
    /\ ev.old
    /\ ~ev.new
    /\ \E h \in Hexes : last_set[h] # NoTime

\* C8 - Active with empty list: an evaluation made while a session is
\* active and the list is empty returns false, ends the session, clears
\* the start time and leaves the cooldown dict as it was.
C8_ActiveEmpty ==
    [][(Evaluated /\ interruption_active /\ Len(live_flights) = 0)
       => (/\ ~ev'.ret
           /\ ~interruption_active'
           /\ interruption_start_time' = NoTime
           /\ cooldown_flights' = cooldown_flights)]_vars

\* a session ended on an empty list, the cooldown of its aircraft kept
C8_Witness ==
    /\ ev.case = "left"
    /\ ~interruption_active
    /\ \E h \in Hexes : cooldown_flights[h] # NoTime

\* C9 - Idle stays idle: an evaluation made while no session is active and
\* no aircraft is present, or every present aircraft is in cooldown, returns
\* false, starts no session and changes no unexpired cooldown timestamp.
C9_IdleStaysIdle ==
    [][(/\ Evaluated
        /\ ~interruption_active
        /\ \A h \in InRange : InCooldown(h))
       => (/\ ~ev'.ret
           /\ ~interruption_active'
           /\ \A h \in Hexes :
                 InCooldown(h) => cooldown_flights'[h] = cooldown_flights[h])]_vars

\* an aircraft in cooldown, still in range at a later evaluation, did not
\* start a session
C9_Witness ==
    /\ ev.case = "idle"
    /\ ev.lingered
    /\ ~ev.ret
    /\ ~interruption_active

\* C10 - Atomic publish: whenever the lock is free, the list is empty
\* exactly when there is no selection, and a selection is an aircraft of
\* the list.
C10_AtomicPublish ==
    lock = "free"
    => /\ (live_flights = <<>>) <=> (current_flight = NoFlight)
       /\ current_flight # NoFlight => current_flight.icao24 \in InRange

\* in the middle of a publish, under the lock, the selection is an aircraft
\* that is no longer in the list
C10_Witness ==
    /\ lock = "poller"
    /\ ppc = "publish_current"
    /\ current_flight # NoFlight
    /\ current_flight.icao24 \notin InRange

\* C11 - Single-lock discipline: wherever a thread reads or writes the
\* flight list, the selection, its index or the session state (active flag,
\* start time, cooldown map), that thread holds the lock.
C11_SingleLock ==
    /\ accessed_by_poller(ppc) # {} => lock = "poller"
    /\ accessed_by_render(rpc) # {} => lock = "render"

\* C12 - No lock across a network call: while the poller waits for the
\* token endpoint, the positions endpoint or a fallback identification
\* request it does not hold the lock, and no position of update(),
\* display() or has_live_content() issues a request.
C12_NoRequestUnderLock ==
    /\ requested_by_poller(ppc) # {} => lock # "poller"
    /\ requested_by_render(rpc) = {}

\* the render thread is inside update(), holding the lock, while a request
\* of the poller is in flight
C12_Witness ==
    /\ requested_by_poller(ppc) # {}
    /\ lock = "render"
    /\ rpc = "update"

\* The two steps of a publish: the list is replaced, the selection is fixed.
ListReplaced == ppc = "publish_list" /\ ppc' = "publish_current"
SelectionFixed == ppc = "publish_current" /\ ppc' = "sleep"

\* C13 - Selection on publish: a successful poll replaces the flight list;
\* with a non-empty new list and no selection, or a selection whose hex
\* code is not in the new list, it selects the closest aircraft (index 0)
\* and restarts the display timer; a selection still present is kept; with
\* an empty new list the selection becomes None.
C13_SelectionOnPublish ==
    [][/\ ListReplaced => live_flights' = new_live_flights
       /\ SelectionFixed =>
             /\ live_flights' = live_flights
             /\ IF live_flights = <<>>
                THEN current_flight' = NoFlight
                ELSE IF \/ current_flight = NoFlight
                        \/ current_flight.icao24 \notin InRange
                THEN /\ current_flight' = live_flights[1]
                     /\ \A i \in 1..Len(live_flights) :
                           current_flight'.distance_km
                              <= live_flights[i].distance_km
                     /\ current_flight_index' = 0
                     /\ last_flight_switch' = poll_time
                ELSE /\ current_flight'.icao24 = current_flight.icao24
                     /\ current_flight_index' = current_flight_index
                     /\ last_flight_switch' = last_flight_switch]_vars

\* a publish is about to fix the selection: the list was replaced by one
\* without the aircraft selected so far, after the clock has moved on
C13_Witness ==
    /\ ppc = "publish_current"
    /\ live_flights # <<>>
    /\ current_flight # NoFlight
    /\ current_flight.icao24 \notin InRange
    /\ poll_time > last_flight_switch

\* An update() that switches the selection.
Switched == ppc' = ppc /\ last_flight_switch' # last_flight_switch

\* C14 - Rotation: update() switches the selection only when more than one
\* aircraft is present and at least flight_display_duration seconds have
\* passed since the last switch; while the same aircraft stay present a
\* switch moves on to another aircraft, so that successive switches select
\* every present aircraft in turn (of two aircraft: the other one); with
\* exactly one aircraft present the selection never switches.
C14_Rotation ==
    [][Switched =>
          /\ Len(live_flights) > 1
          /\ now - last_flight_switch >= flight_display_duration
          /\ current_flight'.icao24 \in InRange
          /\ current_flight'.icao24 # current_flight.icao24]_vars

\* A step that is one iteration of the poll loop.
PollCycled == now' = now + update_interval

\* C15 - Disabled or outside the polling window: a poll cycle run while
\* tracking is disabled or the hour is outside the window empties the
\* flight list, sets the selection to None, issues no token and no
\* positions request and leaves the consecutive-error counter unchanged.
C15_OutsideWindow ==
    [][(PollCycled /\ (~enabled \/ ~cycle'.within))
       => (/\ live_flights' = <<>>
           /\ current_flight' = NoFlight
           /\ ~cycle'.exchange
           /\ ~cycle'.positions
           /\ consecutive_errors' = consecutive_errors)]_vars

\* a cycle outside the window emptied the display after an aircraft had
\* been selected and errors had been counted
C15_Witness ==
    /\ cycle.result = "outside"
    /\ ~cycle.within
    /\ live_flights = <<>>
    /\ current_flight = NoFlight
    /\ last_flight_switch > 0
    /\ consecutive_errors > 0

\* The results of a poll cycle that count as a failure.
Failures == {"token_failed", "unauthorized", "status", "exception"}

\* C16 - Error backoff: a failed poll cycle leaves the consecutive-error
\* counter one higher than the cycle took it up (0 when it first reset it
\* after a backoff); with the counter at max_consecutive_errors and less
\* than error_backoff_time since the last recorded error a cycle issues no
\* request and changes nothing; once that time has passed the next cycle
\* within the window resets the counter and, with credentials configured,
\* issues requests again; a successful cycle resets the counter to 0, and
\* the counter never passes the maximum.
C16_ErrorBackoff ==
    [][PollCycled =>
          LET backoff == consecutive_errors >= max_consecutive_errors
              waiting == now - last_error_time < error_backoff_time
              taken_up == IF backoff THEN 0 ELSE consecutive_errors
          IN  /\ cycle'.result \in Failures
                    => /\ consecutive_errors' = taken_up + 1
                       /\ last_error_time' = now
              /\ (backoff /\ waiting)
                    => /\ ~cycle'.exchange
                       /\ ~cycle'.positions
                       /\ consecutive_errors' = consecutive_errors
                       /\ cycle'.result \notin Failures \cup {"ok"}
              /\ (backoff /\ ~waiting /\ enabled /\ cycle'.within)
                    => /\ consecutive_errors' <= 1
                       /\ cycle'.result \in Failures \cup {"ok"}
                       /\ client_credentials
                             => (cycle'.exchange \/ cycle'.positions)
              /\ cycle'.result = "ok" => consecutive_errors' = 0
              /\ consecutive_errors' <= max_consecutive_errors]_vars

\* after max_consecutive_errors failures and the backoff time a cycle has
\* reset the counter and asked the positions endpoint again
C16_Witness ==
    /\ cycle.resumed
    /\ cycle.positions
    /\ consecutive_errors <= 1

\* C17 - Authentication error: a cycle whose positions request is answered
\* 401 clears the cached access token and counts one error like any other
\* failure; with the token cleared after an earlier exchange, the next
\* cycle that reaches the credential refresh issues a token exchange,
\* wherever the stored expiry time lies.
C17_Unauthorized ==
    [][PollCycled =>
          LET taken_up == IF consecutive_errors >= max_consecutive_errors
                          THEN 0 ELSE consecutive_errors
          IN  /\ cycle'.result = "unauthorized"
                    => /\ access_token' = NoToken
                       /\ consecutive_errors' = taken_up + 1
                       /\ last_error_time' = now
              /\ (/\ access_token = NoToken
                  /\ token_expiry > 0
                  /\ cycle'.result \in Failures \cup {"ok"})
                    => cycle'.exchange]_vars

\* a token exchange was issued while the expiry time of the token obtained
\* before was still more than the refresh margin ahead
C17_Witness ==
    /\ cycle.exchange
    /\ cycle.early

\* C18 - Token caching: a cycle that reaches the credential refresh with
\* credentials configured issues no token exchange, and the refresh
\* succeeds, while a token is cached and now < token_expiry - 300 s, and
\* issues an exchange otherwise; without credentials no exchange is issued
\* and the refresh fails; a failed refresh leaves the cached token and its
\* expiry as they were and the cycle counts one error.
C18_TokenCaching ==
    [][(PollCycled /\ cycle'.result \in Failures \cup {"ok"}) =>
          LET cached == /\ access_token # NoToken
                        /\ now < token_expiry - refresh_margin
              taken_up == IF consecutive_errors >= max_consecutive_errors
                          THEN 0 ELSE consecutive_errors
          IN  /\ (client_credentials /\ cached)
                    => /\ ~cycle'.exchange
                       /\ cycle'.result # "token_failed"
              /\ (client_credentials /\ ~cached) => cycle'.exchange
              /\ ~client_credentials
                    => /\ ~cycle'.exchange
                       /\ cycle'.result = "token_failed"
              /\ cycle'.result = "token_failed"
                    => /\ access_token' = access_token
                       /\ token_expiry' = token_expiry
                       /\ consecutive_errors' = taken_up + 1
                       /\ ~cycle'.positions]_vars

\* the exchange for a token that had come inside the refresh margin failed:
\* the old token is still there and one error is counted
C18_Witness ==
    /\ cycle.result = "token_failed"
    /\ cycle.exchange
    /\ access_token # NoToken
    /\ token_expiry > 0
    /\ consecutive_errors > 0

\* C19 - Stop signal: once the stop event is set the poll loop begins no
\* further poll cycle, ends at most one sleep increment (of at most one
\* second) that was under way, and has ended after the fetch or the sleep
\* that was under way and the two tests that follow it - however much of
\* the update interval is left.
C19_StopSignal ==
    stop_event
    => /\ after_stop.cycles = 0
       /\ after_stop.sleeps <= 1
       /\ after_stop.steps <= 3
       /\ after_stop.steps = 3 => lpc = "ended"

\* the loop was stopped in a sleep increment with more than a second of
\* the update interval left, and has ended
C19_Witness ==
    /\ stop_event
    /\ lpc = "ended"
    /\ after_stop.sleeps = 1
    /\ sleep_time > 1

\* A step that ends a poll cycle.
CycleEnded == lpc = "fetch" /\ lpc' # "fetch"

\* C20 - The poller survives errors: however a poll cycle ends - by a
\* failure it handled or by an exception the loop caught - the loop goes on
\* to the sleep before its next cycle; a cycle that failed or raised leaves
\* the flight list and the selection the render path reads as they were;
\* the loop has ended only if the stop event is set.
C20_PollerSurvives ==
    [][/\ CycleEnded => /\ lpc' = "sleep_check"
                        /\ sleep_time' = update_interval
       /\ (CycleEnded /\ cycle'.result \in Failures \cup {"raised"})
             => UNCHANGED bridgeVars
       /\ lpc' = "ended" => stop_event']_vars

\* after a cycle that raised and one that failed the loop is in the sleep
\* before its next cycle, with an aircraft still published
C20_Witness ==
    /\ cycle.result = "raised"
    /\ consecutive_errors > 0
    /\ live_flights # <<>>
    /\ lpc = "sleeping"
    /\ ~stop_event


\* ---- filtering and ordering of a polled batch (SpecBatch)
Polled == cycle.result # "none"

\* the vectors of the batch that have every column and pass the filters
Valid(states) ==
    {i \in 1..Len(states) : ~is_short(states[i]) /\ ~skipped(states[i])}

Malformed(states) == {i \in 1..Len(states) : is_short(states[i])}

\* C21: when one vector of a polled batch is malformed, only that record is
\* skipped: the cycle is not counted as a failure, and every valid record
\* of the batch (there being no more than max_flights of them) is in the
\* published list.
C21_PerRecordErrors ==
    (Polled /\ Cardinality(Malformed(polled_states)) = 1
       /\ Cardinality(Valid(polled_states)) <= max_flights)
    => /\ cycle.result = "ok"
       /\ consecutive_errors = 0
       /\ \A i \in Valid(polled_states) :
             polled_states[i].icao24 \in Present(live_flights)

\* C22: the list published by a successful poll has at most max_flights
\* records, is sorted by ascending distance from home, and, when more than
\* max_flights aircraft pass the filters, consists of the max_flights
\* closest of them: no aircraft left out is closer than one in the list.
C22_ClosestFirst ==
    (Polled /\ cycle.result = "ok")
    => /\ Len(live_flights) <= max_flights
       /\ \A i \in 1..(Len(live_flights) - 1) :
             live_flights[i].distance_km <= live_flights[i + 1].distance_km
       /\ Cardinality(Valid(polled_states)) > max_flights
          => /\ Len(live_flights) = max_flights
             /\ \A i \in Valid(polled_states) :
                   \/ polled_states[i].icao24 \in Present(live_flights)
                   \/ \A k \in 1..Len(live_flights) :
                         live_flights[k].distance_km
                            <= polled_states[i].distance_km

\* C23: every record in a published flight list has
\* distance_from_home <= radius_km.
C23_InRadius ==
    (Polled /\ cycle.result = "ok")
    => \A k \in 1..Len(live_flights) : live_flights[k].distance_km <= radius_km

\* the vector a published record was made from
vector_of(f) ==
    CHOOSE v \in {polled_states[i] : i \in 1..Len(polled_states)} :
        v.icao24 = f.icao24

\* C24: every record in a published flight list has a non-empty callsign,
\* a latitude and a longitude, on_ground false, and no reported altitude
\* below min_altitude_m, a reported altitude of 0 included.
C24_Filtering ==
    (Polled /\ cycle.result = "ok")
    => \A k \in 1..Len(live_flights) :
          LET v == vector_of(live_flights[k])
          IN  /\ v.callsign # ""
              /\ v.has_position
              /\ ~v.on_ground
              /\ ~(v.altitude_m # NoAltitude /\ v.altitude_m < min_altitude_m)

\* ---- aircraft identification (SpecLookup)
\* a step that is a lookup call
LookedUp == lookup' # lookup /\ lookup' # NoLookup

\* the value a lookup returns for a cached entry
value_of(entry) == IF entry = NotFound THEN Empty ELSE entry

\* the last lookup went on to the fallback
FellBack == lookup'.result # "database"

Errored(answer) == answer.status \notin {200, 404}

\* the answer says not found: status 404, or a 200 body marked not-found
SaidNotFound(answer) ==
    answer.status = 404 \/ (answer.status = 200 /\ answer.body = "not_found")

InWindow == now - last_fallback_request < fallback_rate_limit

C28_CacheSurvivesRestart ==
    \A h \in Codes : cache_file[h] # Absent => fallback_cache[h] = cache_file[h]

\* the keys of the database's lookup memo
Memoized(memo) == {memo[i] : i \in 1..Len(memo)}

\* C29: in every identification tier (the database's lookup memo and the
\* fallback cache), an entry once cached stays cached after any later
\* lookup.
C29_NoEviction ==
    [][LookedUp =>
          /\ Memoized(db_cache) \subseteq Memoized(db_cache')
          /\ \A k \in Codes :
                fallback_cache[k] # Absent => fallback_cache'[k] # Absent]_vars

\* ---- two threads in the shared lookup module (SpecThreads)
\* C30: accesses to the fallback cache are serialized: two threads calling
\* the lookup concurrently never write the cache file at the same time,
\* never issue two requests inside one rate-limit window, and never lose
\* an entry: once no write is under way the file holds every entry of the
\* cache.
C30_Serialized ==
    /\ \A th \in Threads, o \in Threads :
          (at(th, "dump") /\ at(o, "dump")) => th = o
    /\ Len(request_times) = 2
       => request_times[2] - request_times[1] >= fallback_rate_limit
    /\ (\A th \in Threads : ~at(th, "save") /\ ~at(th, "dump"))
       => \A h \in Codes :
             fallback_cache[h] # Absent => cache_file[h] = fallback_cache[h]

\* ---- aircraft type inference (SpecInfer, SpecRegistry)
\* a step that classifies an aircraft
Classified == inference = NoInference /\ inference' # NoInference

\* the callsign as the functions read it
Read(callsign) == strip(upper(callsign))

\* the registry keys an argument stands for
HexKey(icao24) == lstrip(upper(icao24), "0")
NNumberKey(callsign) == SubSeq(Read(callsign), 2, Len(Read(callsign)))

HasHexEntry(icao24) ==
    icao24 # None /\ HexKey(icao24) \in DOMAIN faa_db.by_icao24

HasNNumberEntry(callsign) ==
    /\ startswith(Read(callsign), "N")
    /\ NNumberKey(callsign) \in DOMAIN faa_db.by_nnumber

Military(callsign) == starts_with_any(Read(callsign), military_patterns)

\* C31: for a callsign that matches no military prefix, if the loaded FAA
\* registry has an entry for the hex code, infer_aircraft_type returns
\* that entry's type; failing that, if it has an entry for the N-number
\* callsign, it returns that entry's type.
C31_TierPrecedence ==
    [][(Classified /\ faa_db.loaded /\ ~Military(inference'.callsign))
       => /\ HasHexEntry(inference'.icao24)
             => inference'.type
                  = faa_db.by_icao24[HexKey(inference'.icao24)].type
          /\ (~HasHexEntry(inference'.icao24)
                /\ HasNNumberEntry(inference'.callsign))
             => inference'.type
                  = faa_db.by_nnumber[NNumberKey(inference'.callsign)].type
      ]_vars

\* the N-number of a registered helicopter, heard with the hex code of the
\* FedEx jet at 30000 ft, is classified FDX
C31_Witness ==
    /\ inference.callsign = "N202H"
    /\ inference.icao24 = "a1"
    /\ inference.altitude_ft = 30000
    /\ inference.type = "FDX"
    /\ "202H" \in DOMAIN faa_db.by_nnumber

Known(n) == n # NoValue

\* C32: for every callsign that starts with a known military prefix,
\* infer_aircraft_type returns MIL or MIL_HELO whatever the registry holds;
\* it returns MIL_HELO exactly when the callsign also contains a helicopter
\* indicator or both altitude < 5000 ft and ground speed < 180 kt are known.
C32_MilitaryPreCheck ==
    [][(Classified /\ Military(inference'.callsign))
       => /\ inference'.type \in {"MIL", "MIL_HELO"}
          /\ inference'.type = "MIL_HELO"
             <=> \/ \E p \in heli_patterns :
                       contains(Read(inference'.callsign), p)
                 \/ /\ Known(inference'.altitude_ft)
                    /\ Known(inference'.speed_knots)
                    /\ inference'.altitude_ft < 5000
                    /\ inference'.speed_knots < 180
      ]_vars

\* the entries of the registry
Entries ==
    {faa_db.by_icao24[k] : k \in DOMAIN faa_db.by_icao24}
    \cup {faa_db.by_nnumber[k] : k \in DOMAIN faa_db.by_nnumber}

\* known cargo-carrier substrings of a registrant name and their codes
CarrierNames ==
    {<<"UNITED PARCEL", "UPS">>, <<"UPS", "UPS">>,
     <<"FEDERAL EXPRESS", "FDX">>, <<"FEDEX", "FDX">>,
     <<"AMAZON", "AMAZON">>, <<"PRIME AIR", "AMAZON">>, <<"DHL", "DHL">>,
     <<"ATLAS AIR", "AMAZON">>, <<"ABX AIR", "AMAZON">>}
    \cup {<<name, "CARGO">> : name \in other_cargo_names}

CarriersNamed(registrant) ==
    {c[2] : c \in {d \in CarrierNames : contains(registrant, d[1])}}

\* C33: a registry record of FAA type 5 (base classification JET or TWIN)
\* whose registrant name contains a known cargo-carrier substring gets the
\* named carrier code instead; without such a substring it stays JET or
\* TWIN; a record of any other FAA type keeps its base type whatever the
\* registrant name.
C33_CargoOverride ==
    \A e \in Entries :
        /\ (e.type_aircraft = "5" /\ CarriersNamed(e.registrant) # {})
           => e.type \in CarriersNamed(e.registrant)
        /\ (e.type_aircraft = "5" /\ CarriersNamed(e.registrant) = {})
           => e.type = IF e.type_engine \in ENGINE_TURBINE_CODES
                       THEN "JET" ELSE "TWIN"
        /\ e.type_aircraft # "5"
           => e.type = CASE e.type_aircraft = "4" -> "GA"
                         [] e.type_aircraft = "6" -> "HELO"
                         [] OTHER -> "UNK"

\* a FedEx jet is FDX while a FedEx helicopter stays HELO
C33_Witness ==
    /\ \E e \in Entries :
          /\ e.type = "FDX"
          /\ e.type_aircraft = "5"
          /\ contains(e.registrant, "FEDERAL EXPRESS")
    /\ \E e \in Entries :
          /\ e.type = "HELO"
          /\ contains(e.registrant, "FEDERAL EXPRESS")

\* the code of the carrier a callsign prefix names
CarrierPrefixes ==
    {<<"UPS", "UPS">>, <<"FDX", "FDX">>, <<"FXE", "FDX">>,
     <<"GTI", "AMAZON">>, <<"ATN", "AMAZON">>, <<"ABX", "AMAZON">>,
     <<"DHL", "DHL">>, <<"BCS", "DHL">>, <<"DAE", "DHL">>}

\* C34: when no registry tier identifies the aircraft, a callsign that
\* starts with a cargo-carrier prefix is classified with its named carrier
\* code and never as JET, whatever the altitude, by the shared function
\* and by the manager's own.
C34_CargoBeforeAirline ==
    [][Classified
       => \A c \in CarrierPrefixes :
             (/\ startswith(Read(inference'.callsign), c[1])
              /\ ~(faa_db.loaded
                   /\ (HasHexEntry(inference'.icao24)
                       \/ HasNNumberEntry(inference'.callsign))))
             => /\ inference'.type = c[2]
                /\ inference'.manager_type = c[2]
      ]_vars

\* ---- selection and rotation index after a publish (SpecBridge)
\* C35: in every state the render path can observe (no critical section
\* under way) where the flight list is non-empty, current_flight_index is
\* in 0 .. len(live_flights) - 1 and live_flights[current_flight_index]
\* has the same hex code as current_flight.
C35_RotationIndexValid ==
    (lock = "free" /\ live_flights # <<>>)
    => /\ current_flight_index \in 0..(Len(live_flights) - 1)
       /\ live_flights[current_flight_index + 1].icao24
            = current_flight.icao24

\* C36: after every successful poll that publishes a non-empty list,
\* current_flight is the record of the newly published list for its hex
\* code, with the distance it has in that list.
C36_SelectionCarriesLatest ==
    [][(SelectionFixed /\ live_flights' # <<>>)
       => \E i \in 1..Len(live_flights') :
             live_flights'[i] = current_flight']_vars

\* ---- polling started and stopped repeatedly (SpecRestart)
\* the poll loops running
Running == {i \in PollThreads : alive(i)}

\* C37: across any sequence of start_background_polling() and
\* stop_background_polling() calls, including a stop whose join times out
\* on a fetch in flight followed by a new start, at most one background
\* poll loop is running at any time.
C37_SinglePoller == Cardinality(Running) <= 1

\* C38: in every reachable state of the poller the error counter is
\* between 0 and max_consecutive_errors.
C38_ErrorCounterBound ==
    consecutive_errors \in 0..max_consecutive_errors

\* ---- failed and skipped poll cycles (SpecPoller)
\* the ways a poll cycle fails, and the cycle skipped in backoff
FailedOrSkipped ==
    {"token_failed", "unauthorized", "status", "exception", "backoff"}

\* C39: a poll cycle that fails (token refresh failure, non-200 answer,
\* exception) or is skipped because of backoff leaves the flight list, the
\* selection, the rotation index and last_update unchanged, and leaves the
\* session state (active flag, start time, cooldown map) unchanged.
C39_FailureKeepsSnapshot ==
    [][(PollCycled /\ cycle'.result \in FailedOrSkipped)
       => UNCHANGED <<live_flights, current_flight, current_flight_index,
                      last_update, sessionVars>>]_vars

\* a cycle was skipped in backoff, after the failures that led there, and
\* the aircraft published before them is still listed and selected
C39_Witness ==
    /\ cycle.result = "backoff"
    /\ live_flights # <<>>
    /\ current_flight # NoFlight

\* ---- the render path against the publishes (SpecRender)
\* update() rotates the selection; display() goes on to render
Rotated ==
    rpc = "update" /\ rpc' # rpc /\ last_flight_switch' # last_flight_switch
Rendered == rpc = "display_copy" /\ rpc' = "display_render"

\* C40: for every interleaving of poller publishes with render-path calls,
\* has_live_content() works on the list as it stood when copied, update()
\* indexes the flight list within its range and selects a listed record,
\* display() renders only a selection that is not None, and display()
\* called while the published list is empty returns without rendering.
C40_RenderPathSafe ==
    [][/\ (rpc = "hlc_copy" /\ rpc' # rpc) => current_flights' = live_flights
       /\ Rotated
          => /\ current_flight_index' \in 0..(Len(live_flights) - 1)
             /\ current_flight' = live_flights[current_flight_index' + 1]
             /\ current_flight' # NoFlight
       /\ Rendered => current_flight # NoFlight
       /\ (rpc = "display_copy" /\ rpc' # rpc /\ live_flights = <<>>)
          => rpc' = "idle"
      ]_vars

\* display() has copied a selection and is rendering it while the poller,
\* holding the lock, has replaced the list by the empty list and is about
\* to drop the selection
C40_Witness ==
    /\ rpc = "display_render"
    /\ lock = "poller"
    /\ ppc = "publish_current"
    /\ live_flights = <<>>
    /\ current_flight # NoFlight
====
